---- MODULE Spec2Model ----
(***************************************************************************)
(* State-machine model of the requests-and-offers zomes: the status        *)
(* tracker of the administration zome (status.rs, administration.rs), the  *)
(* user entry it is attached to (user.rs) and the agreement completion     *)
(* barrier of the exchanges zome (agreement.rs).                           *)
(*                                                                         *)
(* The host store is modelled as two append-only stores: `dht` holds       *)
(* the actions (Create / Update / Delete) with their entries, an action    *)
(* hash is the entry type with the rank of the action among the actions on *)
(* entries of that type; `links` is the set of CreateLink actions, and a   *)
(* DeleteLink marks its link deleted.  A zome call that returns Err        *)
(* commits nothing.                                                        *)
(***************************************************************************)
EXTENDS Integers, Sequences, FiniteSets, TLC

\* ---------------------------------------------------------------- bounds
MaxUsers == 1
MaxUserUpdates == 1
MaxStatuses == 3
MaxAdministrators == 1
MaxAcceptedLinks == 2
MaxTime == 1
MaxProposals == 1
MaxAgreements == 1
MaxAgreementRevisions == 2

Agents == {"a1", "a2"}
EntityNames == {"users"}
Reasons == {"r"}
Durations == {1}

VARIABLES dht, links, now, result, calls

vars == <<dht, links, now, result, calls>>

\* ------------------------------------------------------- host primitives
NoHash == <<"None", 0>>

\* Linkable hashes: an action hash, an agent key or a path entry hash.
ActionBase(h) == <<"action", h>>
AgentBase(a) == <<"agent", a>>
\* Path::from(format!("{}.{}", entity, suffix)).path_entry_hash()
PathBase(entity, suffix) == <<"path", entity, suffix>>

Missing == [action |-> "Missing"]

\* get(hash, GetOptions::default()): the record of that very action; None
\* when the hash is unknown or the action has been deleted.  It does not
\* follow updates.
get(D, h) ==
  IF h \in DOMAIN D /\ ~D[h].deleted THEN D[h] ELSE Missing

\* The store before the first action.
EmptyStore == [h \in {} |-> Missing]

\* The number of actions written on entries of a type, and the hash of the
\* next one.
written(D, entry_type) == Cardinality({h \in DOMAIN D : h[1] = entry_type})
hash_action(D, entry_type) == <<entry_type, written(D, entry_type) + 1>>

create_entry(D, author, entry_type, entry) ==
  D @@ (hash_action(D, entry_type) :>
          [action |-> "Create", original_action_address |-> NoHash,
           author |-> author, entry_type |-> entry_type, entry |-> entry,
           deleted |-> FALSE])

\* update_entry needs the updated action to be an entry creation of the
\* same entry type.
can_update_entry(D, previous, entry_type) ==
  /\ previous \in DOMAIN D
  /\ D[previous].action \in {"Create", "Update"}
  /\ D[previous].entry_type = entry_type

update_entry(D, author, previous, entry_type, entry) ==
  D @@ (hash_action(D, entry_type) :>
          [action |-> "Update", original_action_address |-> previous,
           author |-> author, entry_type |-> entry_type, entry |-> entry,
           deleted |-> FALSE])

can_delete_entry(D, h) ==
  /\ h \in DOMAIN D
  /\ D[h].action \in {"Create", "Update"}

delete_entry(D, author, h) ==
  [D EXCEPT ![h].deleted = TRUE]
    @@ (hash_action(D, "Delete") :>
          [action |-> "Delete", original_action_address |-> h,
           author |-> author, entry_type |-> "None", entry |-> <<>>,
           deleted |-> FALSE])

\* A link is identified by its base, its type and its rank among the links
\* of that base and type (the order of their timestamps): links of
\* different bases or types are never compared.
create_link_hash(l) == <<l.base, l.link_type, l.index>>

create_link(L, base, target, link_type) ==
  L \cup {[base |-> base, link_type |-> link_type,
           index |-> Cardinality({l \in L : l.base = base /\ l.link_type = link_type}) + 1,
           target |-> target, deleted |-> FALSE]}

\* delete_link: a DeleteLink on the CreateLink of that hash; deleting a
\* link twice is accepted.
delete_link(L, hash) ==
  {IF create_link_hash(l) = hash THEN [l EXCEPT !.deleted = TRUE] ELSE l : l \in L}

\* get_links: the live links of that base and type; the host returns them
\* oldest first.
get_links(L, base, link_type) ==
  {l \in L : l.base = base /\ l.link_type = link_type /\ ~l.deleted}

\* links.first()
first(S) == CHOOSE l \in S : \A m \in S : l.index <= m.index
\* links.into_iter().max_by(timestamp)
latest(S) == CHOOSE l \in S : \A m \in S : l.index >= m.index

\* ------------------------------------------------------ utils/src/lib.rs
\* find_original_action_hash stopping after one hop: the action that an
\* Update names, whatever it is.
find_original_action_hash_one_hop(D, action_hash) ==
  LET record == get(D, action_hash) IN
  IF record = Missing THEN [err |-> "RecordNotFound", hash |-> NoHash]
  ELSE IF record.action = "Create" THEN [err |-> "Ok", hash |-> action_hash]
  ELSE IF record.action = "Update"
       THEN [err |-> "Ok", hash |-> record.original_action_address]
  ELSE [err |-> "InvalidData", hash |-> NoHash]

\* find_original_action_hash taking the first action it visits for the
\* original whenever it has a record.
find_original_action_hash_no_walk(D, action_hash) ==
  IF get(D, action_hash) = Missing THEN [err |-> "RecordNotFound", hash |-> NoHash]
  ELSE [err |-> "Ok", hash |-> action_hash]

RECURSIVE find_original_action_hash(_, _)
find_original_action_hash(D, action_hash) ==
  LET record == get(D, action_hash) IN
  IF record = Missing THEN [err |-> "RecordNotFound", hash |-> NoHash]
  ELSE IF record.action = "Create" THEN [err |-> "Ok", hash |-> action_hash]
  ELSE IF record.action = "Update"
       THEN find_original_action_hash(D, record.original_action_address)
  ELSE [err |-> "InvalidData", hash |-> NoHash]

\* ----------------------------------------------------- Status (integrity)
StatusTypes == {"pending", "accepted", "rejected",
                "suspended temporarily", "suspended indefinitely"}

Status_pending == [status_type |-> "pending", reason |-> "", suspended_until |-> 0]
Status_accept == [status_type |-> "accepted", reason |-> "", suspended_until |-> 0]
Status_reject(reason) ==
  [status_type |-> "rejected", reason |-> reason, suspended_until |-> 0]
\* Status::suspend(reason, time): time = None is coded as duration 0
Status_suspend(reason, duration, t) ==
  IF duration = 0
  THEN [status_type |-> "suspended indefinitely", reason |-> reason,
        suspended_until |-> 0]
  ELSE [status_type |-> "suspended temporarily", reason |-> reason,
        suspended_until |-> t + duration]

\* Status::unsuspend_if_time_passed(&mut self, now): the status after the
\* call and the returned flag.
Status_unsuspend_if_time_passed(status, t) ==
  IF status.status_type = "suspended temporarily" /\ t >= status.suspended_until
  THEN [status |-> Status_accept, is_unsuspended |-> TRUE]
  ELSE [status |-> status, is_unsuspended |-> FALSE]

\* --------------------------------------------------- administration.rs
get_all_administrators_links(L, entity) ==
  get_links(L, PathBase(entity, "administrators"), "AllAdministrators")

check_if_entity_is_administrator(L, input) ==
  \E l \in get_all_administrators_links(L, input.entity) :
    l.target = ActionBase(input.entity_original_action_hash)

\* The gate answering yes to every agent.
check_if_agent_is_administrator_open(L, input) == TRUE

check_if_agent_is_administrator(L, input) ==
  get_links(L, AgentBase(input.agent_pubkey), "AgentAdministrators") # {}

\* The loop of register_administrator over input.agent_pubkeys.
RECURSIVE register_agents(_, _, _)
register_agents(L, entity, agent_pubkeys) ==
  IF agent_pubkeys = <<>> THEN L
  ELSE register_agents(
         create_link(L, AgentBase(Head(agent_pubkeys)),
                     PathBase(entity, "administrators"), "AgentAdministrators"),
         entity, Tail(agent_pubkeys))

register_administrator_run(L, input) ==
  IF check_if_entity_is_administrator(L,
       [entity |-> input.entity,
        entity_original_action_hash |-> input.entity_original_action_hash])
  THEN [err |-> "AlreadyAdmin", links |-> L]
  ELSE [err |-> "Ok",
        links |-> register_agents(
                    create_link(L, PathBase(input.entity, "administrators"),
                                ActionBase(input.entity_original_action_hash),
                                "AllAdministrators"),
                    input.entity, input.agent_pubkeys)]

\* ----------------------------------------------------------- status.rs
Fail(D, L, err) == [err |-> err, dht |-> D, links |-> L, hash |-> NoHash]
Done(D, L, hash) == [err |-> "Ok", dht |-> D, links |-> L, hash |-> hash]

\* create_status without its AlreadyStatus check.
create_status_run_unchecked(D, L, caller, input) ==
  LET resolved == find_original_action_hash(D, input.entity_original_action_hash) IN
  IF resolved.err # "Ok" THEN Fail(D, L, resolved.err)
  ELSE
    LET D1 == create_entry(D, caller, "Status", Status_pending)
        status_hash == hash_action(D, "Status")
        L1 == create_link(L, PathBase(input.entity, "status"),
                          ActionBase(status_hash), "AllStatuses")
        L2 == create_link(L1, ActionBase(resolved.hash),
                          ActionBase(status_hash), "EntityStatus")
    IN Done(D1, L2, status_hash)

create_status_run(D, L, caller, input) ==
  LET resolved == find_original_action_hash(D, input.entity_original_action_hash) IN
  IF resolved.err # "Ok" THEN Fail(D, L, resolved.err)
  ELSE IF get_links(L, ActionBase(resolved.hash), "EntityStatus") # {}
  THEN Fail(D, L, "AlreadyStatus")
  ELSE
    LET D1 == create_entry(D, caller, "Status", Status_pending)
        status_hash == hash_action(D, "Status")
        L1 == create_link(L, PathBase(input.entity, "status"),
                          ActionBase(status_hash), "AllStatuses")
        L2 == create_link(L1, ActionBase(resolved.hash),
                          ActionBase(status_hash), "EntityStatus")
    IN Done(D1, L2, status_hash)

\* get_latest_status_record: the newest AllStatuses link based at the given
\* hash, or the hash itself when there is none.
get_latest_status_record(D, L, original_action_hash) ==
  LET ls == get_links(L, ActionBase(original_action_hash), "AllStatuses") IN
  IF ls = {} THEN [err |-> "Ok", record |-> get(D, original_action_hash)]
  ELSE LET target == latest(ls).target IN
       IF target[1] # "action"
       THEN [err |-> "ActionHashNotFound", record |-> Missing]
       ELSE [err |-> "Ok", record |-> get(D, target[2])]

NoStatus == [status_type |-> "None"]

get_latest_status(D, L, original_action_hash) ==
  LET r == get_latest_status_record(D, L, original_action_hash) IN
  IF r.err # "Ok" THEN [err |-> r.err, status |-> NoStatus]
  ELSE IF r.record = Missing THEN [err |-> "RecordNotFound", status |-> NoStatus]
  ELSE IF r.record.action = "Delete" THEN [err |-> "Ok", status |-> NoStatus]
  ELSE IF r.record.entry_type # "Status" THEN [err |-> "Serialize", status |-> NoStatus]
  ELSE [err |-> "Ok", status |-> r.record.entry]

\* get_latest_status_for_entity answering the status at the root of the
\* update chain of the first current-status edge target.
get_latest_status_for_entity_at_root(D, L, input) ==
  LET resolved == find_original_action_hash(D, input.entity_original_action_hash) IN
  IF resolved.err # "Ok" THEN [err |-> resolved.err, status |-> NoStatus]
  ELSE LET ls == get_links(L, ActionBase(resolved.hash), "EntityStatus") IN
       IF ls = {} THEN [err |-> "Ok", status |-> NoStatus]
       ELSE get_latest_status(D, L,
              find_original_action_hash(D, first(ls).target[2]).hash)

get_latest_status_for_entity(D, L, input) ==
  LET resolved == find_original_action_hash(D, input.entity_original_action_hash) IN
  IF resolved.err # "Ok" THEN [err |-> resolved.err, status |-> NoStatus]
  ELSE LET ls == get_links(L, ActionBase(resolved.hash), "EntityStatus") IN
       IF ls = {} THEN [err |-> "Ok", status |-> NoStatus]
       ELSE get_latest_status(D, L, first(ls).target[2])

create_accepted_entity_link_run(L, input) ==
  create_link(L, PathBase(input.entity, "status.accepted"),
              ActionBase(input.entity_original_action_hash), "AcceptedEntity")

get_accepted_entities(L, entity) ==
  get_links(L, PathBase(entity, "status.accepted"), "AcceptedEntity")

\* The removal that deletes nothing.
delete_accepted_entity_link_skipped(L, input) == L

delete_accepted_entity_link(L, input) ==
  LET found == {l \in get_accepted_entities(L, input.entity) :
                  l.target = ActionBase(input.entity_original_action_hash)} IN
  IF found # {} THEN delete_link(L, create_link_hash(first(found))) ELSE L

check_if_entity_is_accepted(L, input) ==
  \E l \in get_accepted_entities(L, input.entity) :
    l.target = ActionBase(input.entity_original_action_hash)

\* update_entity_status up to and including the get_links of the
\* current-status edge (status.rs 251-269).
update_entity_status_read(D, L, caller, input) ==
  IF ~check_if_agent_is_administrator(L,
        [agent_pubkey |-> caller, entity |-> input.entity])
  THEN [err |-> "Unauthorized", resolved |-> NoHash, entity_links |-> {}]
  ELSE
    LET resolved == find_original_action_hash(D, input.entity_original_action_hash) IN
    IF resolved.err # "Ok"
    THEN [err |-> resolved.err, resolved |-> NoHash, entity_links |-> {}]
    ELSE [err |-> "Ok", resolved |-> resolved.hash,
          entity_links |-> get_links(L, ActionBase(resolved.hash), "EntityStatus")]

\* The accepted-bucket maintenance that ends update_entity_status
\* (status.rs 325-335).
update_accepted_bucket(L, entity, resolved, new_status) ==
  LET e == [entity |-> entity, entity_original_action_hash |-> resolved]
      L1 == delete_accepted_entity_link(L, e)
  IN IF new_status.status_type = "accepted"
     THEN create_accepted_entity_link_run(L1, e)
     ELSE L1

\* The swap without its delete_link.
swap_entity_status_link_keeping_old(L, entity_links, resolved, action_hash) ==
  create_link(L, ActionBase(resolved), ActionBase(action_hash), "EntityStatus")

\* The swap deleting every current-status edge live when it writes.
swap_entity_status_link_rereading(L, entity_links, resolved, action_hash) ==
  create_link({IF l.base = ActionBase(resolved) /\ l.link_type = "EntityStatus"
               THEN [l EXCEPT !.deleted = TRUE] ELSE l : l \in L},
              ActionBase(resolved), ActionBase(action_hash), "EntityStatus")

\* The swap of the current-status edge (status.rs 308-322).
swap_entity_status_link(L, entity_links, resolved, action_hash) ==
  create_link(delete_link(L, create_link_hash(first(entity_links))),
              ActionBase(resolved), ActionBase(action_hash), "EntityStatus")

\* update_entity_status from the branch on entity_links to the end
\* (status.rs 271-340), on the store as it is when the writes happen.
update_entity_status_write(D, L, caller, input, r) ==
  IF r.entity_links = {}
  THEN
    LET D1 == create_entry(D, caller, "Status", input.new_status)
        action_hash == hash_action(D, "Status")
        L1 == create_link(L, PathBase(input.entity, "status"),
                          ActionBase(action_hash), "AllStatuses")
        L2 == create_link(L1, ActionBase(r.resolved),
                          ActionBase(action_hash), "EntityStatus")
    IN Done(D1, update_accepted_bucket(L2, input.entity, r.resolved, input.new_status),
            action_hash)
  ELSE IF ~can_update_entry(D, input.status_previous_action_hash, "Status")
  THEN Fail(D, L, "HostError")
  ELSE
    LET D1 == update_entry(D, caller, input.status_previous_action_hash,
                           "Status", input.new_status)
        action_hash == hash_action(D, "Status")
        L1 == create_link(L, ActionBase(input.status_original_action_hash),
                          ActionBase(action_hash), "StatusUpdates")
        L2 == swap_entity_status_link(L1, r.entity_links, r.resolved, action_hash)
    IN Done(D1, update_accepted_bucket(L2, input.entity, r.resolved, input.new_status),
            action_hash)

update_entity_status_run(D, L, caller, input) ==
  LET r == update_entity_status_read(D, L, caller, input) IN
  IF r.err # "Ok" THEN Fail(D, L, r.err)
  ELSE update_entity_status_write(D, L, caller, input, r)

\* suspend_entity_temporarily going on to update_entity_status when it is
\* given no duration.
suspend_entity_temporarily_run_any_duration(D, L, t, caller, input) ==
  LET r == update_entity_status_run(D, L, caller,
             [entity |-> input.entity,
              entity_original_action_hash |-> input.entity_original_action_hash,
              status_original_action_hash |-> input.status_original_action_hash,
              status_previous_action_hash |-> input.status_previous_action_hash,
              new_status |-> Status_suspend(input.reason, input.duration_in_days, t)])
  IN [err |-> "Ok", dht |-> r.dht, links |-> r.links, value |-> (r.err = "Ok")]

\* suspend_entity_temporarily: duration_in_days = None is coded as 0.
suspend_entity_temporarily_run(D, L, t, caller, input) ==
  IF input.duration_in_days = 0
  THEN [err |-> "DurationInDaysNotProvided", dht |-> D, links |-> L, value |-> FALSE]
  ELSE
    LET r == update_entity_status_run(D, L, caller,
               [entity |-> input.entity,
                entity_original_action_hash |-> input.entity_original_action_hash,
                status_original_action_hash |-> input.status_original_action_hash,
                status_previous_action_hash |-> input.status_previous_action_hash,
                new_status |-> Status_suspend(input.reason, input.duration_in_days, t)])
    IN [err |-> "Ok", dht |-> r.dht, links |-> r.links, value |-> (r.err = "Ok")]

suspend_entity_indefinitely_run(D, L, caller, input) ==
  LET r == update_entity_status_run(D, L, caller,
             [entity |-> input.entity,
              entity_original_action_hash |-> input.entity_original_action_hash,
              status_original_action_hash |-> input.status_original_action_hash,
              status_previous_action_hash |-> input.status_previous_action_hash,
              new_status |-> Status_suspend(input.reason, 0, 0)])
  IN [err |-> "Ok", dht |-> r.dht, links |-> r.links, value |-> (r.err = "Ok")]

\* unsuspend_entity_if_time_passed lifting a temporary suspension whatever
\* the time is.
unsuspend_entity_if_time_passed_run_ignoring_time(D, L, t, caller, input) ==
  LET ls == get_links(L, ActionBase(input.entity_original_action_hash), "EntityStatus")
      nothing(err, value) == [err |-> err, dht |-> D, links |-> L, value |-> value]
  IN
  IF ls = {} THEN nothing("LinkNotFound", FALSE)
  ELSE
    LET got == get_latest_status(D, L, first(ls).target[2]) IN
    IF got.err # "Ok" THEN nothing(got.err, FALSE)
    ELSE IF got.status = NoStatus THEN nothing("EntryNotFound", FALSE)
    ELSE IF got.status.status_type = "suspended temporarily"
    THEN
      LET r == update_entity_status_run(D, L, caller,
                 [entity |-> input.entity,
                  entity_original_action_hash |-> input.entity_original_action_hash,
                  status_original_action_hash |-> input.status_original_action_hash,
                  status_previous_action_hash |-> input.status_previous_action_hash,
                  new_status |-> Status_accept])
      IN IF r.err # "Ok" THEN nothing(r.err, FALSE)
         ELSE [err |-> "Ok", dht |-> r.dht, links |-> r.links, value |-> TRUE]
    ELSE nothing("Ok", FALSE)

unsuspend_entity_if_time_passed_run(D, L, t, caller, input) ==
  LET ls == get_links(L, ActionBase(input.entity_original_action_hash), "EntityStatus")
      nothing(err, value) == [err |-> err, dht |-> D, links |-> L, value |-> value]
  IN
  IF ls = {} THEN nothing("LinkNotFound", FALSE)
  ELSE
    LET got == get_latest_status(D, L, first(ls).target[2]) IN
    IF got.err # "Ok" THEN nothing(got.err, FALSE)
    ELSE IF got.status = NoStatus THEN nothing("EntryNotFound", FALSE)
    ELSE IF got.status.status_type = "suspended temporarily"
    THEN
      LET u == Status_unsuspend_if_time_passed(got.status, t) IN
      IF ~u.is_unsuspended THEN nothing("Ok", FALSE)
      ELSE
        LET r == update_entity_status_run(D, L, caller,
                   [entity |-> input.entity,
                    entity_original_action_hash |-> input.entity_original_action_hash,
                    status_original_action_hash |-> input.status_original_action_hash,
                    status_previous_action_hash |-> input.status_previous_action_hash,
                    new_status |-> u.status])
        IN IF r.err # "Ok" THEN nothing(r.err, FALSE)
           ELSE [err |-> "Ok", dht |-> r.dht, links |-> r.links, value |-> TRUE]
    ELSE nothing("Ok", FALSE)

unsuspend_entity_run(D, L, caller, input) ==
  LET r == update_entity_status_run(D, L, caller,
             [entity |-> input.entity,
              entity_original_action_hash |-> input.entity_original_action_hash,
              status_original_action_hash |-> input.status_original_action_hash,
              status_previous_action_hash |-> input.status_previous_action_hash,
              new_status |-> Status_accept])
  IN [err |-> "Ok", dht |-> r.dht, links |-> r.links, value |-> (r.err = "Ok")]

delete_status_run(D, L, caller, input) ==
  LET ls == get_links(L, ActionBase(input.entity_original_action_hash), "EntityStatus") IN
  IF ls = {} THEN Fail(D, L, "LinkNotFound")
  ELSE IF ~can_delete_entry(D, input.entity_original_action_hash)
  THEN Fail(D, L, "HostError")
  ELSE
    LET link == first(ls)
        L1 == delete_accepted_entity_link(L, input)
        L2 == delete_link(L1, create_link_hash(link))
    IN Done(delete_entry(D, caller, input.entity_original_action_hash), L2, NoHash)

\* ------------------------------------------------------------- user.rs
User == [nickname |-> "n"]

\* create_user with no service types to link.
create_user_run(D, L, caller) ==
  IF get_links(L, AgentBase(caller), "MyUser") # {}
  THEN Fail(D, L, "UserAlreadyExists")
  ELSE
    LET D1 == create_entry(D, caller, "User", User)
        user_hash == hash_action(D, "User")
        L1 == create_link(L, PathBase("users", ""), ActionBase(user_hash), "AllUsers")
        L2 == create_link(L1, AgentBase(caller), ActionBase(user_hash), "MyUser")
        L3 == create_link(L2, ActionBase(user_hash), AgentBase(caller), "UserAgents")
        s == create_status_run(D1, L3, caller,
               [entity |-> "users", entity_original_action_hash |-> user_hash])
    IN IF s.err # "Ok" THEN Fail(D, L, "External")
       ELSE Done(s.dht,
                 create_link(s.links, ActionBase(user_hash), ActionBase(s.hash),
                             "UserStatus"),
                 user_hash)

\* update_user with no service types to link.
update_user_run(D, L, caller, input) ==
  IF input.original_action_hash \notin DOMAIN D THEN Fail(D, L, "HostError")
  ELSE IF D[input.original_action_hash].author # caller THEN Fail(D, L, "NotAuthor")
  ELSE IF ~can_update_entry(D, input.previous_action_hash, "User")
  THEN Fail(D, L, "HostError")
  ELSE
    LET D1 == update_entry(D, caller, input.previous_action_hash, "User", User)
        updated_user_hash == hash_action(D, "User")
    IN Done(D1,
            create_link(L, ActionBase(input.original_action_hash),
                        ActionBase(updated_user_hash), "UserUpdates"),
            updated_user_hash)

\* ------------------------------------------- exchanges: agreement.rs
AgreementStatuses ==
  {"Active", "InProgress", "Completed", "CancelledMutual", "CancelledProvider",
   "CancelledReceiver", "Failed", "Disputed"}

\* Agreement::from_proposal: the fields that the completion barrier reads
\* and writes (the texts and the timestamps are left out).
from_proposal ==
  [status |-> "Active", provider_validated |-> FALSE, receiver_validated |-> FALSE]

update_status(agreement, new_status) == [agreement EXCEPT !.status = new_status]

validate_by_provider(agreement) ==
  [agreement EXCEPT !.provider_validated = TRUE,
                    !.status = IF agreement.receiver_validated
                               THEN "Completed" ELSE agreement.status]

\* validate_by_receiver completing the agreement whatever the provider did.
validate_by_receiver_alone(agreement) ==
  [agreement EXCEPT !.receiver_validated = TRUE, !.status = "Completed"]

validate_by_receiver(agreement) ==
  [agreement EXCEPT !.receiver_validated = TRUE,
                    !.status = IF agreement.provider_validated
                               THEN "Completed" ELSE agreement.status]

is_mutually_validated(agreement) ==
  agreement.provider_validated /\ agreement.receiver_validated

\* external_calls.rs: the administrator check of the exchanges zome.
exchanges_check_if_agent_is_administrator(L, agent_pubkey) ==
  check_if_agent_is_administrator(L,
    [entity |-> "network", agent_pubkey |-> agent_pubkey])

\* user.rs get_agent_user, called through external_calls.rs.
get_agent_user(L, author) == get_links(L, AgentBase(author), "MyUser")

\* external_calls.rs get_request_or_offer_record: get_request and get_offer
\* are both get(action_hash), so the record of any action is returned.
get_request_or_offer_record(D, entity_hash) == get(D, entity_hash)

\* The authorization that opens create_exchange_proposal and
\* create_agreement: an administrator or an accepted user.
check_accepted_user_or_administrator(L, agent_pubkey) ==
  IF exchanges_check_if_agent_is_administrator(L, agent_pubkey) THEN "Ok"
  ELSE
    LET user_links == get_agent_user(L, agent_pubkey) IN
    IF user_links = {} THEN "Unauthorized"
    ELSE LET target == first(user_links).target IN
         IF target[1] # "action" THEN "ActionHashNotFound"
         ELSE IF check_if_entity_is_accepted(L,
                   [entity |-> "users", entity_original_action_hash |-> target[2]])
         THEN "Ok" ELSE "Unauthorized"

\* The status path of an agreement status.
agreement_status_path(status) ==
  CASE status = "Active" -> "agreements.active"
    [] status = "InProgress" -> "agreements.in_progress"
    [] status = "Completed" -> "agreements.completed"
    [] status = "Disputed" -> "agreements.disputed"
    [] OTHER -> "agreements.cancelled"

index_agreement_by_status(L, agreement_hash, status) ==
  create_link(L, PathBase("exchanges", agreement_status_path(status)),
              ActionBase(agreement_hash), "AgreementsByStatus")

\* Every live status-path link whose target is the agreement is deleted.
remove_agreement_from_status_paths(L, agreement_hash) ==
  {IF l.link_type = "AgreementsByStatus" /\ l.target = ActionBase(agreement_hash)
      /\ ~l.deleted
   THEN [l EXCEPT !.deleted = TRUE] ELSE l : l \in L}

\* exchange_proposal.rs create_exchange_proposal for a DirectResponse.
create_exchange_proposal_run(D, L, caller, input) ==
  LET auth == check_accepted_user_or_administrator(L, caller)
      target_record == get_request_or_offer_record(D, input.target_entity_hash)
  IN
  IF auth # "Ok" THEN Fail(D, L, auth)
  ELSE IF target_record = Missing THEN Fail(D, L, "EntryNotFound")
  ELSE
    LET D1 == create_entry(D, caller, "ExchangeProposal", [status |-> "Pending"])
        proposal_hash == hash_action(D, "ExchangeProposal")
        L1 == create_link(L, ActionBase(input.target_entity_hash),
                          ActionBase(proposal_hash), "RequestToProposal")
        L2 == create_link(L1, ActionBase(proposal_hash), AgentBase(caller),
                          "ProposalToResponder")
        L3 == create_link(L2, ActionBase(proposal_hash),
                          AgentBase(target_record.author), "ProposalToOriginalPoster")
        L4 == create_link(L3, PathBase("exchanges", "proposals.all"),
                          ActionBase(proposal_hash), "AllProposals")
        L5 == create_link(L4, PathBase("exchanges", "proposals.pending"),
                          ActionBase(proposal_hash), "ProposalsByStatus")
    IN Done(D1, L5, proposal_hash)

\* link.target.into_agent_pub_key() of the first link of a set: NoAgent when
\* there is no link or its target is no agent key.
NoAgent == "none"
first_agent(ls) ==
  IF ls = {} THEN NoAgent
  ELSE IF first(ls).target[1] # "agent" THEN NoAgent
  ELSE first(ls).target[2]

\* agreement.rs create_agreement_links and index_agreement_by_status.
create_agreement_links(L, agreement_hash, proposal_hash) ==
  LET L1 == create_link(L, ActionBase(proposal_hash), ActionBase(agreement_hash),
                        "ProposalToAgreement")
      responder ==
        first_agent(get_links(L1, ActionBase(proposal_hash), "ProposalToResponder"))
      original_poster ==
        first_agent(get_links(L1, ActionBase(proposal_hash), "ProposalToOriginalPoster"))
  IN
  IF responder = NoAgent \/ original_poster = NoAgent
  THEN [err |-> "InvalidData", links |-> L]
  ELSE
    LET L2 == create_link(L1, ActionBase(agreement_hash), AgentBase(responder),
                          "AgreementToProvider")
        L3 == create_link(L2, ActionBase(agreement_hash), AgentBase(original_poster),
                          "AgreementToReceiver")
        L4 == create_link(L3, PathBase("exchanges", "agreements.all"),
                          ActionBase(agreement_hash), "AllAgreements")
    IN [err |-> "Ok", links |-> L4]

create_agreement_run(D, L, caller, input) ==
  LET auth == check_accepted_user_or_administrator(L, caller) IN
  IF auth # "Ok" THEN Fail(D, L, auth)
  ELSE IF get(D, input.proposal_hash) = Missing THEN Fail(D, L, "EntryNotFound")
  ELSE
    LET agreement == from_proposal
        D1 == create_entry(D, caller, "Agreement", agreement)
        agreement_hash == hash_action(D, "Agreement")
        linked == create_agreement_links(L, agreement_hash, input.proposal_hash)
    IN IF linked.err # "Ok" THEN Fail(D, L, linked.err)
       ELSE Done(D1, index_agreement_by_status(linked.links, agreement_hash,
                                               agreement.status),
                 agreement_hash)

check_if_agreement_provider(L, agreement_hash, agent_pubkey) ==
  \E l \in get_links(L, ActionBase(agreement_hash), "AgreementToProvider") :
    l.target = AgentBase(agent_pubkey)

check_if_agreement_receiver(L, agreement_hash, agent_pubkey) ==
  \E l \in get_links(L, ActionBase(agreement_hash), "AgreementToReceiver") :
    l.target = AgentBase(agent_pubkey)

check_if_agreement_participant(L, agreement_hash, agent_pubkey) ==
  \/ check_if_agreement_provider(L, agreement_hash, agent_pubkey)
  \/ check_if_agreement_receiver(L, agreement_hash, agent_pubkey)

\* current_record.entry().to_app_option::<Agreement>() of the record that
\* get returns for the hash the caller passes.
get_agreement_entry(D, agreement_hash) ==
  LET current_record == get(D, agreement_hash) IN
  IF current_record = Missing THEN [err |-> "EntryNotFound", agreement |-> <<>>]
  ELSE IF current_record.action = "Delete"
  THEN [err |-> "EntryNotFound", agreement |-> <<>>]
  ELSE IF current_record.entry_type # "Agreement"
  THEN [err |-> "Serialize", agreement |-> <<>>]
  ELSE [err |-> "Ok", agreement |-> current_record.entry]

update_agreement_status_run(D, L, caller, input) ==
  LET current == get_agreement_entry(D, input.agreement_hash) IN
  IF current.err # "Ok" THEN Fail(D, L, current.err)
  ELSE IF /\ ~check_if_agreement_participant(L, input.agreement_hash, caller)
          /\ ~exchanges_check_if_agent_is_administrator(L, caller)
  THEN Fail(D, L, "Unauthorized")
  ELSE
    LET agreement == update_status(current.agreement, input.new_status)
        D1 == update_entry(D, caller, input.agreement_hash, "Agreement", agreement)
        updated_hash == hash_action(D, "Agreement")
        L1 == remove_agreement_from_status_paths(L, input.agreement_hash)
    IN Done(D1, index_agreement_by_status(L1, input.agreement_hash, agreement.status),
            updated_hash)

\* validate_completion up to the agreement it is about to write
\* (agreement.rs 259-290).
validate_completion_read(D, L, caller, input) ==
  LET current == get_agreement_entry(D, input.agreement_hash) IN
  IF current.err # "Ok" THEN [err |-> current.err, agreement |-> <<>>]
  ELSE IF input.validator_role = "Provider"
  THEN IF ~check_if_agreement_provider(L, input.agreement_hash, caller)
       THEN [err |-> "Unauthorized", agreement |-> <<>>]
       ELSE [err |-> "Ok", agreement |-> validate_by_provider(current.agreement)]
  ELSE IF ~check_if_agreement_receiver(L, input.agreement_hash, caller)
       THEN [err |-> "Unauthorized", agreement |-> <<>>]
       ELSE [err |-> "Ok", agreement |-> validate_by_receiver(current.agreement)]

\* validate_completion from its update_entry (agreement.rs 292-304), on the
\* store as it is when the writes happen.
validate_completion_write(D, L, caller, input, r) ==
  IF ~can_update_entry(D, input.agreement_hash, "Agreement")
  THEN Fail(D, L, "HostError")
  ELSE
    LET D1 == update_entry(D, caller, input.agreement_hash, "Agreement", r.agreement)
        updated_hash == hash_action(D, "Agreement")
    IN IF is_mutually_validated(r.agreement)
       THEN Done(D1,
                 index_agreement_by_status(
                   remove_agreement_from_status_paths(L, input.agreement_hash),
                   input.agreement_hash, r.agreement.status),
                 updated_hash)
       ELSE Done(D1, L, updated_hash)

validate_completion_run(D, L, caller, input) ==
  LET r == validate_completion_read(D, L, caller, input) IN
  IF r.err # "Ok" THEN Fail(D, L, r.err)
  ELSE validate_completion_write(D, L, caller, input, r)

\* ------------------------------------------------------ service_type.rs
\* A service type with no tags, so that index_service_type_tags writes
\* nothing.
ServiceType == [name |-> "s"]

PENDING_SERVICE_TYPES_PATH == PathBase("service_types", "status.pending")
APPROVED_SERVICE_TYPES_PATH == PathBase("service_types", "status.approved")
REJECTED_SERVICE_TYPES_PATH == PathBase("service_types", "status.rejected")

ServiceTypeStatusPaths ==
  {PENDING_SERVICE_TYPES_PATH, APPROVED_SERVICE_TYPES_PATH,
   REJECTED_SERVICE_TYPES_PATH}

\* external_calls.rs: the administrator check of the service_types zome.
service_types_check_if_agent_is_administrator(L, agent_pubkey) ==
  check_if_agent_is_administrator(L,
    [entity |-> "network", agent_pubkey |-> agent_pubkey])

\* The removal that looks at the pending path only.
remove_service_type_from_status_paths_pending_only(L, service_type_hash) ==
  {IF /\ l.link_type = "AllServiceTypes"
      /\ l.base = PENDING_SERVICE_TYPES_PATH
      /\ l.target = ActionBase(service_type_hash)
      /\ ~l.deleted
   THEN [l EXCEPT !.deleted = TRUE] ELSE l : l \in L}

\* Every live link of the three status paths whose target is the service
\* type is deleted.
remove_service_type_from_status_paths(L, service_type_hash) ==
  {IF /\ l.link_type = "AllServiceTypes"
      /\ l.base \in ServiceTypeStatusPaths
      /\ l.target = ActionBase(service_type_hash)
      /\ ~l.deleted
   THEN [l EXCEPT !.deleted = TRUE] ELSE l : l \in L}

\* create_service_type and suggest_service_type after their authorization:
\* the entry, the link of the service_types path and the link of one
\* status path.
new_service_type(D, L, caller, status_path) ==
  LET D1 == create_entry(D, caller, "ServiceType", ServiceType)
      service_type_hash == hash_action(D, "ServiceType")
      L1 == create_link(L, PathBase("service_types", ""),
                        ActionBase(service_type_hash), "AllServiceTypes")
      L2 == remove_service_type_from_status_paths(L1, service_type_hash)
      L3 == create_link(L2, status_path, ActionBase(service_type_hash),
                        "AllServiceTypes")
  IN Done(D1, L3, service_type_hash)

create_service_type_run(D, L, caller) ==
  IF ~service_types_check_if_agent_is_administrator(L, caller)
  THEN Fail(D, L, "Unauthorized")
  ELSE new_service_type(D, L, caller, APPROVED_SERVICE_TYPES_PATH)

suggest_service_type_run(D, L, caller) ==
  new_service_type(D, L, caller, PENDING_SERVICE_TYPES_PATH)

\* approve_service_type, reject_service_type and
\* reject_approved_service_type (of a service type that no request and no
\* offer is linked to): the move from one status path to another.
move_service_type(D, L, caller, service_type_hash, from, to, err) ==
  IF ~service_types_check_if_agent_is_administrator(L, caller)
  THEN Fail(D, L, "Unauthorized")
  ELSE IF ~\E l \in get_links(L, from, "AllServiceTypes") :
             l.target = ActionBase(service_type_hash)
  THEN Fail(D, L, err)
  ELSE Done(D,
            create_link(remove_service_type_from_status_paths(L, service_type_hash),
                        to, ActionBase(service_type_hash), "AllServiceTypes"),
            NoHash)

approve_service_type_run(D, L, caller, service_type_hash) ==
  move_service_type(D, L, caller, service_type_hash,
                    PENDING_SERVICE_TYPES_PATH, APPROVED_SERVICE_TYPES_PATH,
                    "InvalidData(not pending)")

reject_service_type_run(D, L, caller, service_type_hash) ==
  move_service_type(D, L, caller, service_type_hash,
                    PENDING_SERVICE_TYPES_PATH, REJECTED_SERVICE_TYPES_PATH,
                    "InvalidData(not pending)")

reject_approved_service_type_run(D, L, caller, service_type_hash) ==
  move_service_type(D, L, caller, service_type_hash,
                    APPROVED_SERVICE_TYPES_PATH, REJECTED_SERVICE_TYPES_PATH,
                    "InvalidData(not approved)")

delete_service_type_run(D, L, caller, service_type_hash) ==
  IF ~service_types_check_if_agent_is_administrator(L, caller)
  THEN Fail(D, L, "Unauthorized")
  ELSE IF ~can_delete_entry(D, service_type_hash)
  THEN Fail(D, L, "HostError")
  ELSE
    LET found == {l \in get_links(L, PathBase("service_types", ""), "AllServiceTypes") :
                    l.target = ActionBase(service_type_hash)}
        L1 == IF found # {} THEN delete_link(L, create_link_hash(first(found))) ELSE L
        L2 == remove_service_type_from_status_paths(L1, service_type_hash)
    IN Done(delete_entry(D, caller, service_type_hash), L2, NoHash)

\* ------------------------------------------------- medium_of_exchange.rs
ExchangeTypes == {"base", "currency"}

\* A MediumOfExchange: its exchange_type and whether resource_spec_hrea_id
\* is set.
MediumOfExchange(exchange_type, has_resource_spec) ==
  [exchange_type |-> exchange_type, resource_spec_hrea_id |-> has_resource_spec]

PENDING_MEDIUMS_OF_EXCHANGE_PATH == PathBase("mediums_of_exchange", "status.pending")
APPROVED_MEDIUMS_OF_EXCHANGE_PATH == PathBase("mediums_of_exchange", "status.approved")
REJECTED_MEDIUMS_OF_EXCHANGE_PATH == PathBase("mediums_of_exchange", "status.rejected")

MediumOfExchangeStatusPaths ==
  {PENDING_MEDIUMS_OF_EXCHANGE_PATH, APPROVED_MEDIUMS_OF_EXCHANGE_PATH,
   REJECTED_MEDIUMS_OF_EXCHANGE_PATH}

\* external_calls.rs: the administrator check of the mediums_of_exchange
\* zome.
mediums_check_if_agent_is_administrator(L, agent_pubkey) ==
  check_if_agent_is_administrator(L,
    [entity |-> "network", agent_pubkey |-> agent_pubkey])

\* Every live link of the three status paths whose target is the medium of
\* exchange is deleted.
remove_medium_of_exchange_from_status_paths(L, medium_of_exchange_hash) ==
  {IF /\ l.link_type = "AllMediumsOfExchange"
      /\ l.base \in MediumOfExchangeStatusPaths
      /\ l.target = ActionBase(medium_of_exchange_hash)
      /\ ~l.deleted
   THEN [l EXCEPT !.deleted = TRUE] ELSE l : l \in L}

\* suggest_medium_of_exchange and create_medium_of_exchange after their
\* checks: the entry without resource_spec_hrea_id, the link of the
\* mediums_of_exchange path and the link of one status path.
new_medium_of_exchange(D, L, caller, exchange_type, status_path) ==
  LET D1 == create_entry(D, caller, "MediumOfExchange",
                         MediumOfExchange(exchange_type, FALSE))
      medium_of_exchange_hash == hash_action(D, "MediumOfExchange")
      L1 == create_link(L, PathBase("mediums_of_exchange", ""),
                        ActionBase(medium_of_exchange_hash), "AllMediumsOfExchange")
      L2 == remove_medium_of_exchange_from_status_paths(L1, medium_of_exchange_hash)
      L3 == create_link(L2, status_path, ActionBase(medium_of_exchange_hash),
                        "AllMediumsOfExchange")
  IN Done(D1, L3, medium_of_exchange_hash)

suggest_medium_of_exchange_run(D, L, caller, exchange_type) ==
  LET is_admin == mediums_check_if_agent_is_administrator(L, caller)
      user_links == get_agent_user(L, caller)
  IN
  IF ~is_admin /\ user_links = {} THEN Fail(D, L, "ActionHashNotFound")
  ELSE IF ~is_admin /\ first(user_links).target[1] # "action"
  THEN Fail(D, L, "ActionHashNotFound")
  ELSE IF ~is_admin /\ ~check_if_entity_is_accepted(L,
                           [entity |-> "users",
                            entity_original_action_hash |-> first(user_links).target[2]])
  THEN Fail(D, L, "Unauthorized")
  ELSE IF ~is_admin /\ exchange_type # "currency"
  THEN Fail(D, L, "InvalidData")
  ELSE new_medium_of_exchange(D, L, caller, exchange_type,
                              PENDING_MEDIUMS_OF_EXCHANGE_PATH)

create_medium_of_exchange_run(D, L, caller, exchange_type) ==
  IF ~mediums_check_if_agent_is_administrator(L, caller)
  THEN Fail(D, L, "Unauthorized")
  ELSE new_medium_of_exchange(D, L, caller, exchange_type,
                              APPROVED_MEDIUMS_OF_EXCHANGE_PATH)

approve_medium_of_exchange_run(D, L, caller, medium_of_exchange_hash) ==
  LET record == get(D, medium_of_exchange_hash) IN
  IF ~mediums_check_if_agent_is_administrator(L, caller)
  THEN Fail(D, L, "Unauthorized")
  ELSE IF record = Missing \/ record.action = "Delete"
  THEN Fail(D, L, "EntryNotFound")
  ELSE IF record.entry_type # "MediumOfExchange" THEN Fail(D, L, "Serialize")
  ELSE
    LET D1 == update_entry(D, caller, medium_of_exchange_hash, "MediumOfExchange",
                           MediumOfExchange(record.entry.exchange_type, TRUE))
        updated_hash == hash_action(D, "MediumOfExchange")
        L1 == create_link(L, ActionBase(medium_of_exchange_hash),
                          ActionBase(updated_hash), "MediumOfExchangeUpdates")
        L2 == remove_medium_of_exchange_from_status_paths(L1, medium_of_exchange_hash)
        L3 == create_link(L2, APPROVED_MEDIUMS_OF_EXCHANGE_PATH,
                          ActionBase(medium_of_exchange_hash), "AllMediumsOfExchange")
    IN Done(D1, L3, NoHash)

reject_medium_of_exchange_run(D, L, caller, medium_of_exchange_hash) ==
  IF ~mediums_check_if_agent_is_administrator(L, caller)
  THEN Fail(D, L, "Unauthorized")
  ELSE Done(D,
            create_link(
              remove_medium_of_exchange_from_status_paths(L, medium_of_exchange_hash),
              REJECTED_MEDIUMS_OF_EXCHANGE_PATH,
              ActionBase(medium_of_exchange_hash), "AllMediumsOfExchange"),
            NoHash)

delete_medium_of_exchange_run(D, L, caller, medium_of_exchange_hash) ==
  IF ~mediums_check_if_agent_is_administrator(L, caller)
  THEN Fail(D, L, "Unauthorized")
  ELSE IF get(D, medium_of_exchange_hash) = Missing
  THEN Fail(D, L, "EntryNotFound")
  ELSE IF ~can_delete_entry(D, medium_of_exchange_hash)
  THEN Fail(D, L, "HostError")
  ELSE Done(delete_entry(D, caller, medium_of_exchange_hash),
            remove_medium_of_exchange_from_status_paths(L, medium_of_exchange_hash),
            NoHash)

\* ------------------------------------------------------- inputs of calls
\* The entity hashes callers pass: the user actions (original or revision)
\* and one unknown hash.
EntityHashes ==
  {h \in DOMAIN dht : dht[h].entry_type = "User"} \cup {NoHash}

\* The status hashes callers pass, as <<original, previous>>: a status that
\* a current-status edge targets with the root of its update chain, which
\* is what a client reads back before it updates, or two unknown hashes.
StatusRefs ==
  {<<find_original_action_hash(dht, l.target[2]).hash, l.target[2]>> :
     l \in {m \in links : m.link_type = "EntityStatus" /\ ~m.deleted}}
    \cup {<<NoHash, NoHash>>}

EntityActionHashes ==
  [entity : EntityNames, entity_original_action_hash : EntityHashes]

\* The hashes callers pass to update_user: a user with the newest action of
\* its update chain, which is what a client reads back before it updates,
\* or two unknown hashes.
UpdateUserInputs ==
  {[original_action_hash |-> find_original_action_hash(dht, h).hash,
    previous_action_hash |-> h] :
     h \in {g \in EntityHashes \ {NoHash} :
              ~\E k \in DOMAIN dht : dht[k].original_action_address = g}}
    \cup {[original_action_hash |-> NoHash, previous_action_hash |-> NoHash]}

\* The Status values a caller passes to update_entity_status.
NewStatuses ==
  {Status_pending, Status_accept}
    \cup {Status_reject(reason) : reason \in Reasons}
    \cup {Status_suspend(reason, d, now) : reason \in Reasons, d \in {0} \cup Durations}

UpdateInputs ==
  {[entity |-> e.entity,
    entity_original_action_hash |-> e.entity_original_action_hash,
    status_original_action_hash |-> s[1],
    status_previous_action_hash |-> s[2]] :
     e \in EntityActionHashes, s \in StatusRefs}

UpdateEntityActionHashes ==
  {[entity |-> u.entity,
    entity_original_action_hash |-> u.entity_original_action_hash,
    status_original_action_hash |-> u.status_original_action_hash,
    status_previous_action_hash |-> u.status_previous_action_hash,
    new_status |-> n] : u \in UpdateInputs, n \in NewStatuses}

\* The inputs of the exchanges zome: the target of a proposal, the proposal
\* of an agreement, an agreement (the original action or a revision) with a
\* new status or with the role of the validator.
CreateExchangeProposalInputs == [target_entity_hash : EntityHashes]

CreateAgreementInputs ==
  [proposal_hash :
     {h \in DOMAIN dht : dht[h].entry_type = "ExchangeProposal"} \cup {NoHash}]

AgreementHashes ==
  {h \in DOMAIN dht : dht[h].entry_type = "Agreement"} \cup {NoHash}

NewAgreementStatuses == {"InProgress", "Completed", "Disputed"}

UpdateAgreementStatusInputs ==
  [agreement_hash : AgreementHashes, new_status : NewAgreementStatuses]

ValidatorRoles == {"Provider", "Receiver"}

ValidateCompletionInputs ==
  [agreement_hash : AgreementHashes, validator_role : ValidatorRoles]

SuspendEntityInputs ==
  {[entity |-> u.entity,
    entity_original_action_hash |-> u.entity_original_action_hash,
    status_original_action_hash |-> u.status_original_action_hash,
    status_previous_action_hash |-> u.status_previous_action_hash,
    reason |-> reason, duration_in_days |-> d] :
     u \in UpdateInputs, reason \in Reasons, d \in {0} \cup Durations}

\* ------------------------------------------------------------ the calls
\* No call is running: the last one has returned to its caller.
NoResult == [op |-> "none", caller |-> "none", outcome |-> "none"]

\* The zome call an agent has in flight when calls of several agents
\* overlap: what it was given, what it has read and after how many actions
\* on the entries it writes, and, once it has ended, its outcome and the
\* action it wrote.
Idle ==
  [pc |-> "idle", op |-> "none", input |-> <<>>, read |-> <<>>, at |-> 0,
   outcome |-> "none", hash |-> NoHash]

Init ==
  /\ dht = EmptyStore
  /\ links = {}
  /\ now = 0
  /\ result = NoResult
  /\ calls = [a \in Agents |-> Idle]

Entries(D, action, entry_type) ==
  {h \in DOMAIN D : D[h].action = action /\ D[h].entry_type = entry_type}

LinksOfType(L, link_type) == {l \in L : l.link_type = link_type}

\* The stores a call may leave: the bounds of the model.
Bounded(D, L) ==
  /\ Cardinality(Entries(D, "Create", "User")) <= MaxUsers
  /\ Cardinality(Entries(D, "Update", "User")) <= MaxUserUpdates
  /\ Cardinality(Entries(D, "Create", "Status") \cup Entries(D, "Update", "Status"))
       <= MaxStatuses
  /\ Cardinality(LinksOfType(L, "AllAdministrators")) <= MaxAdministrators
  /\ Cardinality(LinksOfType(L, "AcceptedEntity")) <= MaxAcceptedLinks
  /\ Cardinality(Entries(D, "Create", "ExchangeProposal")) <= MaxProposals
  /\ Cardinality(Entries(D, "Create", "Agreement")) <= MaxAgreements
  /\ Cardinality(Entries(D, "Update", "Agreement")) <= MaxAgreementRevisions

\* A zome call runs when the previous one has returned (one call at a
\* time); it commits its writes when it ends Ok and nothing otherwise, and
\* its outcome is the response to its caller.
Commit(op, caller, outcome, D, L) ==
  /\ result = NoResult
  /\ Bounded(D, L)
  /\ dht' = D
  /\ links' = L
  /\ result' = [op |-> op, caller |-> caller, outcome |-> outcome]
  /\ UNCHANGED <<now, calls>>

BoolOutcome(r) ==
  IF r.err # "Ok" THEN r.err ELSE IF r.value THEN "Ok(true)" ELSE "Ok(false)"

\* The caller receives the response.
Return ==
  /\ result # NoResult
  /\ result' = NoResult
  /\ UNCHANGED <<dht, links, now, calls>>

\* sys_time advances between calls.
Tick ==
  /\ result = NoResult
  /\ now < MaxTime
  /\ now' = now + 1
  /\ UNCHANGED <<dht, links, result, calls>>

create_user(caller) ==
  LET r == create_user_run(dht, links, caller) IN
  Commit("create_user", caller, r.err, r.dht, r.links)

update_user(caller, input) ==
  LET r == update_user_run(dht, links, caller, input) IN
  Commit("update_user", caller, r.err, r.dht, r.links)

register_administrator(caller, input) ==
  LET r == register_administrator_run(links, input) IN
  Commit("register_administrator", caller, r.err, dht, r.links)

create_status(caller, input) ==
  LET r == create_status_run(dht, links, caller, input) IN
  Commit("create_status", caller, r.err, r.dht, r.links)

create_accepted_entity_link(caller, input) ==
  Commit("create_accepted_entity_link", caller, "Ok(true)", dht,
         create_accepted_entity_link_run(links, input))

update_entity_status(caller, input) ==
  LET r == update_entity_status_run(dht, links, caller, input) IN
  Commit("update_entity_status", caller, r.err, r.dht, r.links)

suspend_entity_temporarily(caller, input) ==
  LET r == suspend_entity_temporarily_run(dht, links, now, caller, input) IN
  Commit("suspend_entity_temporarily", caller, BoolOutcome(r), r.dht, r.links)

suspend_entity_indefinitely(caller, input) ==
  LET r == suspend_entity_indefinitely_run(dht, links, caller, input) IN
  Commit("suspend_entity_indefinitely", caller, BoolOutcome(r), r.dht, r.links)

unsuspend_entity_if_time_passed(caller, input) ==
  LET r == unsuspend_entity_if_time_passed_run(dht, links, now, caller, input) IN
  Commit("unsuspend_entity_if_time_passed", caller, BoolOutcome(r), r.dht, r.links)

unsuspend_entity(caller, input) ==
  LET r == unsuspend_entity_run(dht, links, caller, input) IN
  Commit("unsuspend_entity", caller, BoolOutcome(r), r.dht, r.links)

delete_status(caller, input) ==
  LET r == delete_status_run(dht, links, caller, input) IN
  Commit("delete_status", caller, r.err, r.dht, r.links)

CreateUser == \E caller \in Agents : create_user(caller)
UpdateUser ==
  \E caller \in Agents, input \in UpdateUserInputs : update_user(caller, input)
\* The entities callers name when they register an administrator or write
\* to the accepted bucket directly: the known user actions.
KnownEntities ==
  {e \in EntityActionHashes : e.entity_original_action_hash # NoHash}

\* An agent registers a user, named by its original action, as
\* administrator with its own key.
RegisterAdministrator ==
  \E caller \in Agents, e \in KnownEntities :
    /\ dht[e.entity_original_action_hash].action = "Create"
    /\ register_administrator(caller,
         [entity |-> e.entity,
          entity_original_action_hash |-> e.entity_original_action_hash,
          agent_pubkeys |-> <<caller>>])
CreateStatus ==
  \E caller \in Agents, input \in EntityActionHashes : create_status(caller, input)
CreateAcceptedEntityLink ==
  \E caller \in Agents, input \in KnownEntities :
    create_accepted_entity_link(caller, input)
UpdateEntityStatus ==
  \E caller \in Agents, input \in UpdateEntityActionHashes :
    update_entity_status(caller, input)
SuspendEntityTemporarily ==
  \E caller \in Agents, input \in SuspendEntityInputs :
    suspend_entity_temporarily(caller, input)
SuspendEntityIndefinitely ==
  \E caller \in Agents, input \in SuspendEntityInputs :
    suspend_entity_indefinitely(caller, input)
UnsuspendEntityIfTimePassed ==
  \E caller \in Agents, input \in UpdateInputs :
    unsuspend_entity_if_time_passed(caller, input)
UnsuspendEntity ==
  \E caller \in Agents, input \in UpdateInputs : unsuspend_entity(caller, input)
DeleteStatus ==
  \E caller \in Agents, input \in EntityActionHashes : delete_status(caller, input)

\* Every exposed status operation, one call at a time.
Next ==
  \/ Return
  \/ Tick
  \/ CreateUser
  \/ RegisterAdministrator
  \/ CreateStatus
  \/ CreateAcceptedEntityLink
  \/ UpdateEntityStatus
  \/ SuspendEntityTemporarily
  \/ SuspendEntityIndefinitely
  \/ UnsuspendEntityIfTimePassed
  \/ UnsuspendEntity
  \/ DeleteStatus

Spec == Init /\ [][Next]_vars

\* update_entity_status giving an entity one of the two statuses that its
\* accepted-bucket branch tells apart.
UpdateEntityStatusCore ==
  \E caller \in Agents, input \in UpdateEntityActionHashes :
    /\ input.new_status.status_type \in {"accepted", "rejected"}
    /\ update_entity_status(caller, input)

\* create_status and update_entity_status only, one call at a time.
NextCore ==
  \/ Return
  \/ CreateUser
  \/ UpdateUser
  \/ RegisterAdministrator
  \/ CreateStatus
  \/ UpdateEntityStatusCore

SpecCore == Init /\ [][NextCore]_vars

\* ------------------------------------------------ the exchanges calls
create_exchange_proposal(caller, input) ==
  LET r == create_exchange_proposal_run(dht, links, caller, input) IN
  Commit("create_exchange_proposal", caller, r.err, r.dht, r.links)

create_agreement(caller, input) ==
  LET r == create_agreement_run(dht, links, caller, input) IN
  Commit("create_agreement", caller, r.err, r.dht, r.links)

update_agreement_status(caller, input) ==
  LET r == update_agreement_status_run(dht, links, caller, input) IN
  Commit("update_agreement_status", caller, r.err, r.dht, r.links)

validate_completion(caller, input) ==
  LET r == validate_completion_run(dht, links, caller, input) IN
  Commit("validate_completion", caller, r.err, r.dht, r.links)

CreateExchangeProposal ==
  \E caller \in Agents, input \in CreateExchangeProposalInputs :
    create_exchange_proposal(caller, input)
CreateAgreement ==
  \E caller \in Agents, input \in CreateAgreementInputs :
    create_agreement(caller, input)
UpdateAgreementStatus ==
  \E caller \in Agents, input \in UpdateAgreementStatusInputs :
    update_agreement_status(caller, input)
ValidateCompletion ==
  \E caller \in Agents, input \in ValidateCompletionInputs :
    validate_completion(caller, input)

\* The agreements of administrators and accepted users, one call at a time.
NextAgreement ==
  \/ Return
  \/ CreateUser
  \/ RegisterAdministrator
  \/ CreateAcceptedEntityLink
  \/ CreateExchangeProposal
  \/ CreateAgreement
  \/ UpdateAgreementStatus
  \/ ValidateCompletion

SpecAgreement == Init /\ [][NextAgreement]_vars

\* ------------------------------------------------- overlapping calls
\* A call of one agent overlaps the call of another: it reads the store
\* when it starts and its writes are committed when it ends.
Reading(op, input, read, at) ==
  [pc |-> "read", op |-> op, input |-> input, read |-> read, at |-> at,
   outcome |-> "none", hash |-> NoHash]

Ended(call, outcome, hash) ==
  [call EXCEPT !.pc = "done", !.outcome = outcome, !.hash = hash]

\* update_entity_status up to its get_links: a call that fails there ends.
begin_update_entity_status(caller, input) ==
  LET r == update_entity_status_read(dht, links, caller, input) IN
  /\ result = NoResult
  /\ calls[caller].pc = "idle"
  /\ calls' = [calls EXCEPT ![caller] =
                 IF r.err = "Ok"
                 THEN Reading("update_entity_status", input, r, written(dht, "Status"))
                 ELSE Ended([Idle EXCEPT !.op = "update_entity_status"], r.err, NoHash)]
  /\ UNCHANGED <<dht, links, now, result>>

\* update_entity_status from its branch on the links it has read.
end_update_entity_status(caller) ==
  LET call == calls[caller]
      w == update_entity_status_write(dht, links, caller, call.input, call.read)
  IN /\ call.pc = "read"
     /\ call.op = "update_entity_status"
     /\ Bounded(w.dht, w.links)
     /\ dht' = w.dht
     /\ links' = w.links
     /\ calls' = [calls EXCEPT ![caller] = Ended(call, w.err, w.hash)]
     /\ UNCHANGED <<now, result>>

\* The caller receives the response of its overlapping call.
return_call(caller) ==
  /\ calls[caller].pc = "done"
  /\ calls' = [calls EXCEPT ![caller] = Idle]
  /\ UNCHANGED <<dht, links, now, result>>

\* A user is registered as administrator with the keys of both agents.
RegisterAdministrators ==
  \E caller \in Agents, e \in KnownEntities, a \in Agents, b \in Agents :
    /\ a # b
    /\ register_administrator(caller,
         [entity |-> e.entity,
          entity_original_action_hash |-> e.entity_original_action_hash,
          agent_pubkeys |-> <<a, b>>])
\* What overlapping callers pass: a known user with the status its
\* current-status edge targets, to be accepted or rejected.
RacingUpdateEntityActionHashes ==
  {input \in UpdateEntityActionHashes :
     /\ input.entity_original_action_hash # NoHash
     /\ input.status_previous_action_hash # NoHash
     /\ input.new_status.status_type \in {"accepted", "rejected"}}
BeginUpdateEntityStatus ==
  \E caller \in Agents, input \in RacingUpdateEntityActionHashes :
    begin_update_entity_status(caller, input)
EndUpdateEntityStatus == \E caller \in Agents : end_update_entity_status(caller)
ReturnCall == \E caller \in Agents : return_call(caller)

\* No agent has a call in flight.
Quiet == \A a \in Agents : calls[a].pc = "idle"

\* update_entity_status calls of two administrators that overlap; the calls
\* that set the scene run while no call is in flight.
NextStatusRace ==
  \/ Return
  \/ Quiet /\ CreateUser
  \/ Quiet /\ RegisterAdministrators
  \/ BeginUpdateEntityStatus
  \/ EndUpdateEntityStatus
  \/ ReturnCall

SpecStatusRace == Init /\ [][NextStatusRace]_vars

\* validate_completion up to the agreement it is about to write: a call
\* that fails there ends.
begin_validate_completion(caller, input) ==
  LET r == validate_completion_read(dht, links, caller, input) IN
  /\ result = NoResult
  /\ calls[caller].pc = "idle"
  /\ calls' = [calls EXCEPT ![caller] =
                 IF r.err = "Ok"
                 THEN Reading("validate_completion", input, r, written(dht, "Agreement"))
                 ELSE Ended([Idle EXCEPT !.op = "validate_completion"], r.err, NoHash)]
  /\ UNCHANGED <<dht, links, now, result>>

\* validate_completion from its update_entry.
end_validate_completion(caller) ==
  LET call == calls[caller]
      w == validate_completion_write(dht, links, caller, call.input, call.read)
  IN /\ call.pc = "read"
     /\ call.op = "validate_completion"
     /\ Bounded(w.dht, w.links)
     /\ dht' = w.dht
     /\ links' = w.links
     /\ calls' = [calls EXCEPT ![caller] = Ended(call, w.err, w.hash)]
     /\ UNCHANGED <<now, result>>

BeginValidateCompletion ==
  \E caller \in Agents, input \in ValidateCompletionInputs :
    begin_validate_completion(caller, input)
EndValidateCompletion == \E caller \in Agents : end_validate_completion(caller)

\* The store in which an agreement has just been made: the poster has
\* created its user, the responder has been registered as administrator,
\* has answered the poster's record with a proposal and has made the
\* agreement from it.
Agreed(poster, responder) ==
  LET user == create_user_run(EmptyStore, {}, poster)
      admin == register_administrator_run(user.links,
                 [entity |-> "users", entity_original_action_hash |-> user.hash,
                  agent_pubkeys |-> <<responder>>])
      proposal == create_exchange_proposal_run(user.dht, admin.links, responder,
                    [target_entity_hash |-> user.hash])
  IN create_agreement_run(proposal.dht, proposal.links, responder,
                          [proposal_hash |-> proposal.hash])

InitAgreed ==
  /\ \E poster \in Agents, responder \in Agents :
       /\ dht = Agreed(poster, responder).dht
       /\ links = Agreed(poster, responder).links
  /\ now = 0
  /\ result = NoResult
  /\ calls = [a \in Agents |-> Idle]

\* validate_completion calls on an agreement that overlap.
NextAgreementRace ==
  \/ BeginValidateCompletion
  \/ EndValidateCompletion
  \/ ReturnCall

SpecAgreementRace == InitAgreed /\ [][NextAgreementRace]_vars

\* ------------------------------------------------------------ properties
\* The current-status edges of an entity, and whether it ever had one.
CurrentStatusEdges(L, h) == get_links(L, ActionBase(h), "EntityStatus")
HasStatusTracker(L, h) ==
  \E l \in L : l.base = ActionBase(h) /\ l.link_type = "EntityStatus"

\* The agents that an AgentAdministrators edge names.
IsAdministrator(a) ==
  \E l \in links :
    l.base = AgentBase(a) /\ l.link_type = "AgentAdministrators" /\ ~l.deleted

\* The status_type that get_latest_status_for_entity answers for a hash.
LatestStatusType(D, L, entity, h) ==
  get_latest_status_for_entity(D, L,
    [entity |-> entity, entity_original_action_hash |-> h]).status.status_type

\* C1: under non-concurrent operation, after any sequence of create_status
\* and update_entity_status calls, every entity that has a status tracker
\* has exactly one current-status edge.
C1_ExactlyOneCurrentStatusEdge ==
  \A h \in DOMAIN dht :
    HasStatusTracker(links, h) => Cardinality(CurrentStatusEdges(links, h)) = 1

\* C1 witness: an update_entity_status has just superseded a status, so an
\* older current-status edge of the entity is deleted and one is live.
C1_Witness ==
  /\ result.op = "update_entity_status" /\ result.outcome = "Ok"
  /\ \E l \in links : l.link_type = "EntityStatus" /\ l.deleted
                      /\ Cardinality(CurrentStatusEdges(links, l.base[2])) = 1

\* C4: update_entity_status called by an agent who is not an administrator
\* ends Unauthorized and mutates nothing: the action store, the edges (the
\* current-status edge and the accepted bucket among them) and the answer
\* of get_latest_status_for_entity are as before the call.
C4_Step ==
  (/\ result'.op = "update_entity_status"
   /\ ~IsAdministrator(result'.caller)) =>
    /\ result'.outcome = "Unauthorized"
    /\ dht' = dht
    /\ links' = links
    /\ \A e \in EntityActionHashes :
         get_latest_status_for_entity(dht', links', e)
           = get_latest_status_for_entity(dht, links, e)

C4_UnauthorizedMutatesNothing == [][C4_Step]_vars

\* C4 witness: a non-administrator's update_entity_status on a user that
\* has a status has just been refused.
C4_Witness ==
  /\ result.op = "update_entity_status" /\ result.outcome = "Unauthorized"
  /\ \E a \in Agents : ~IsAdministrator(a)
  /\ \E a \in Agents : IsAdministrator(a)
  /\ \E h \in DOMAIN dht : Cardinality(CurrentStatusEdges(links, h)) = 1

\* C10: create_status on an entity that already has its current-status
\* edge fails with AlreadyStatus and changes nothing, and the create_status
\* that made the edge left the entity with one current-status edge, which
\* targets a Pending status.
C10_Step ==
  \A input \in EntityActionHashes :
    (result'.op = "create_status" /\ create_status(result'.caller, input)) =>
      LET resolved == find_original_action_hash(dht, input.entity_original_action_hash) IN
      resolved.err = "Ok" =>
        IF CurrentStatusEdges(links, resolved.hash) # {}
        THEN /\ result'.outcome = "AlreadyStatus"
             /\ dht' = dht
             /\ links' = links
        ELSE /\ result'.outcome = "Ok"
             /\ Cardinality(CurrentStatusEdges(links', resolved.hash)) = 1
             /\ LatestStatusType(dht', links', input.entity, resolved.hash) = "pending"

C10_SecondCreateStatusFails == [][C10_Step]_vars

\* C10 witness: a create_status has just failed with AlreadyStatus on a
\* user whose one current-status edge targets the Pending status.
C10_Witness ==
  /\ result.op = "create_status" /\ result.outcome = "AlreadyStatus"
  /\ \E h \in DOMAIN dht :
       /\ Cardinality(CurrentStatusEdges(links, h)) = 1
       /\ LatestStatusType(dht, links, "users", h) = "pending"

\* C3: after an administrator's update_entity_status(E, Approved) ends Ok,
\* check_if_entity_is_accepted(E) is true; after update_entity_status(E,
\* Rejected) ends Ok it is false and the accepted bucket holds no edge to E.
C3_Step ==
  \A caller \in Agents, input \in UpdateEntityActionHashes :
    (/\ result'.op = "update_entity_status" /\ result'.outcome = "Ok"
     /\ update_entity_status(caller, input)) =>
      LET E == [entity |-> input.entity,
                entity_original_action_hash |->
                  find_original_action_hash(dht, input.entity_original_action_hash).hash]
      IN /\ input.new_status.status_type = "accepted" =>
              check_if_entity_is_accepted(links', E)
         /\ input.new_status.status_type = "rejected" =>
              /\ ~check_if_entity_is_accepted(links', E)
              /\ ~\E l \in get_accepted_entities(links', E.entity) :
                    l.target = ActionBase(E.entity_original_action_hash)

C3_ApproveThenAcceptedRejectThenNot == [][C3_Step]_vars

\* The status operations that C5 names.
StatusOperation ==
  \/ UpdateEntityStatus
  \/ SuspendEntityTemporarily
  \/ SuspendEntityIndefinitely
  \/ UnsuspendEntity
  \/ UnsuspendEntityIfTimePassed

\* C5: once an entity's current status is Rejected, no status operation
\* changes it to any other status.
C5_Step ==
  (result'.op # "none" /\ StatusOperation) =>
    \A e \in EntityActionHashes :
      LatestStatusType(dht, links, e.entity, e.entity_original_action_hash) = "rejected"
        => LatestStatusType(dht', links', e.entity, e.entity_original_action_hash)
             = "rejected"

C5_RejectedIsFinal == [][C5_Step]_vars

\* C6: in every state reachable by the exposed status operations, an entity
\* for which check_if_entity_is_accepted is true has Approved as its latest
\* status.
C6_AcceptedOnlyIfApproved ==
  \A e \in KnownEntities :
    check_if_entity_is_accepted(links, e) =>
      LatestStatusType(dht, links, e.entity, e.entity_original_action_hash) = "accepted"

\* Two ended calls of a and b, of that operation, each of which had read
\* before the other wrote.
Raced(a, b, op) ==
  /\ a # b
  /\ calls[a].pc = "done" /\ calls[a].op = op /\ calls[a].outcome = "Ok"
  /\ calls[b].pc = "done" /\ calls[b].op = op /\ calls[b].outcome = "Ok"
  /\ calls[a].hash[2] > calls[b].at
  /\ calls[b].hash[2] > calls[a].at

\* C2: when the update_entity_status calls of two administrators on the
\* same entity both read the current-status edge before either writes, the
\* entity ends with a number of current-status edges other than one.
C2_RacingUpdatesLeaveNotOneEdge ==
  \A a \in Agents, b \in Agents :
    (/\ Raced(a, b, "update_entity_status")
     /\ calls[a].read.resolved = calls[b].read.resolved
     /\ calls[a].read.entity_links # {}
     /\ calls[b].read.entity_links # {})
      => Cardinality(CurrentStatusEdges(links, calls[a].read.resolved)) # 1

\* C2 witness: two administrators have updated the status of the same user,
\* both had read its one current-status edge before either wrote, and two
\* current-status edges survive.
C2_Witness ==
  \E a \in Agents, b \in Agents :
    /\ Raced(a, b, "update_entity_status")
    /\ calls[a].read.resolved = calls[b].read.resolved
    /\ calls[a].read.entity_links = calls[b].read.entity_links
    /\ Cardinality(calls[a].read.entity_links) = 1
    /\ Cardinality(CurrentStatusEdges(links, calls[a].read.resolved)) = 2

\* The agreement actions whose update chain starts at the agreement A: A
\* and its revisions.
Revisions(D, A) ==
  {h \in DOMAIN D : /\ D[h].entry_type = "Agreement"
                    /\ find_original_action_hash(D, h).hash = A}

\* C7: in every reachable state, every agreement revision whose status is
\* Completed has provider_validated and receiver_validated both true.
C7_CompletedOnlyWhenBothValidated ==
  \A h \in DOMAIN dht :
    (dht[h].entry_type = "Agreement" /\ dht[h].entry.status = "Completed") =>
      (dht[h].entry.provider_validated /\ dht[h].entry.receiver_validated)

\* C8: starting from an Active agreement A, after the provider's
\* validate_completion(A) the agreement is still Active, and after the
\* receiver's subsequent validate_completion(A) the agreement is Completed
\* (read here as: one of its revisions is).
C8_Step ==
  \A caller \in Agents, input \in ValidateCompletionInputs :
    (/\ result'.op = "validate_completion" /\ result'.outcome = "Ok"
     /\ validate_completion(caller, input)
     /\ dht[input.agreement_hash].action = "Create"
     /\ \A h \in Revisions(dht, input.agreement_hash) : dht[h].entry.status = "Active") =>
      LET A == input.agreement_hash
          before == Revisions(dht, A) \ {A}
          after == Revisions(dht', A)
      IN /\ (input.validator_role = "Provider" /\ before = {}) =>
              \A h \in after : dht'[h].entry.status = "Active"
         /\ (/\ input.validator_role = "Receiver"
             /\ Cardinality(before) = 1
             /\ \A h \in before : /\ dht[h].entry.provider_validated
                                   /\ ~dht[h].entry.receiver_validated) =>
              \E h \in after : dht'[h].entry.status = "Completed"

C8_ProviderThenReceiverCompletes == [][C8_Step]_vars

NextSuspension ==
  \/ Return
  \/ Tick
  \/ CreateUser
  \/ RegisterAdministrator
  \/ SuspendEntityTemporarily
  \/ SuspendEntityIndefinitely
  \/ UnsuspendEntityIfTimePassed

SpecSuspension == Init /\ [][NextSuspension]_vars

\* C11: suspend_entity_temporarily given no duration fails with
\* DurationInDaysNotProvided, whoever the caller is, an administrator
\* included, and changes no status revision and no index edge.
C11_Step ==
  result'.op = "suspend_entity_temporarily" =>
    \/ /\ result'.outcome = "DurationInDaysNotProvided"
       /\ dht' = dht
       /\ links' = links
    \/ ~\E input \in SuspendEntityInputs :
          /\ input.duration_in_days = 0
          /\ suspend_entity_temporarily(result'.caller, input)

C11_NoDurationFails == [][C11_Step]_vars

\* C11 witness: an administrator's suspend_entity_temporarily on an entity
\* that has a current-status edge has just been refused for its missing
\* duration.
C11_Witness ==
  /\ result.op = "suspend_entity_temporarily"
  /\ result.outcome = "DurationInDaysNotProvided"
  /\ IsAdministrator(result.caller)
  /\ \E h \in DOMAIN dht : CurrentStatusEdges(links, h) # {}

\* C12: after an update_entity_status(O, s) that an administrator called
\* has completed, get_latest_status_for_entity(O) answers s: accepted after
\* the update of a Pending entity to accepted, and the rejected status with
\* its reason after a following update to rejected.
C12_Step ==
  (result'.op = "update_entity_status" /\ result'.outcome = "Ok") =>
    \A input \in UpdateEntityActionHashes :
      update_entity_status(result'.caller, input) =>
        /\ IsAdministrator(result'.caller)
        /\ get_latest_status_for_entity(dht', links',
             [entity |-> input.entity,
              entity_original_action_hash |-> input.entity_original_action_hash])
             = [err |-> "Ok", status |-> input.new_status]

C12_LatestStatusIsTheNewStatus == [][C12_Step]_vars

\* C12 witness: a user created Pending was updated to accepted and has just
\* been updated to rejected, and get_latest_status_for_entity answers the
\* rejected status with its reason.
C12_Witness ==
  /\ result.op = "update_entity_status" /\ result.outcome = "Ok"
  /\ \E e \in EntityActionHashes, reason \in Reasons :
       /\ get_latest_status_for_entity(dht, links, e)
            = [err |-> "Ok", status |-> Status_reject(reason)]
       /\ \E h, g \in DOMAIN dht :
            /\ dht[h].entry_type = "Status" /\ dht[h].entry = Status_pending
            /\ dht[g].entry_type = "Status" /\ dht[g].entry = Status_accept
            /\ dht[g].original_action_address = h

\* The status that unsuspend_entity_if_time_passed reads for the hash it is
\* given: the Status at the target of the first current-status edge based
\* at that hash.
CurrentStatus(D, L, h) ==
  LET ls == get_links(L, ActionBase(h), "EntityStatus") IN
  IF ls = {} THEN NoStatus ELSE get_latest_status(D, L, first(ls).target[2]).status

\* The suspension that is the current status of h has expired at time t.
SuspensionExpired(D, L, h, t) ==
  LET s == CurrentStatus(D, L, h) IN
  /\ s.status_type = "suspended temporarily"
  /\ t >= s.suspended_until

\* C13 as stated: unsuspend_entity_if_time_passed answers false and changes
\* nothing unless the entity's current status is a temporary suspension
\* that has expired, and then it makes the status accepted and answers
\* true.
C13_StepAsStated ==
  result'.op = "unsuspend_entity_if_time_passed" =>
    \A input \in UpdateInputs :
      unsuspend_entity_if_time_passed(result'.caller, input) =>
        IF SuspensionExpired(dht, links, input.entity_original_action_hash, now)
        THEN /\ result'.outcome = "Ok(true)"
             /\ CurrentStatus(dht', links', input.entity_original_action_hash)
                  = Status_accept
        ELSE /\ result'.outcome = "Ok(false)"
             /\ dht' = dht
             /\ links' = links

C13_UnsuspendIfTimePassed == [][C13_StepAsStated]_vars

\* C13 amended: unsuspend_entity_if_time_passed changes nothing unless the
\* current status read at the given hash is a temporary suspension that
\* has expired: it fails with LinkNotFound when the hash has no
\* current-status edge and answers false otherwise.  On an expired
\* suspension it calls update_entity_status with the accepted status: when
\* the caller is an administrator and the previous status hash is a Status
\* action, the status becomes accepted and the answer is true; when not,
\* the call fails with the error of update_entity_status and changes
\* nothing.
C13_StepAmended ==
  result'.op = "unsuspend_entity_if_time_passed" =>
    \A input \in UpdateInputs :
      unsuspend_entity_if_time_passed(result'.caller, input) =>
        LET h == input.entity_original_action_hash IN
        IF CurrentStatusEdges(links, h) = {}
        THEN /\ result'.outcome = "LinkNotFound"
             /\ dht' = dht
             /\ links' = links
        ELSE IF ~SuspensionExpired(dht, links, h, now)
        THEN /\ result'.outcome = "Ok(false)"
             /\ dht' = dht
             /\ links' = links
        ELSE IF /\ IsAdministrator(result'.caller)
                /\ can_update_entry(dht, input.status_previous_action_hash, "Status")
        THEN /\ result'.outcome = "Ok(true)"
             /\ CurrentStatus(dht', links', h) = Status_accept
        ELSE /\ result'.outcome \in {"Unauthorized", "HostError"}
             /\ dht' = dht
             /\ links' = links

C13_UnsuspendIfTimePassedAmended == [][C13_StepAmended]_vars

\* C13 witness: unsuspend_entity_if_time_passed has just lifted an expired
\* temporary suspension: the suspended revision is superseded by an
\* accepted one, which is the current status.
C13_Witness ==
  /\ result.op = "unsuspend_entity_if_time_passed"
  /\ result.outcome = "Ok(true)"
  /\ \E h, g \in DOMAIN dht :
       /\ dht[g].entry_type = "Status"
       /\ dht[g].entry.status_type = "suspended temporarily"
       /\ now >= dht[g].entry.suspended_until
       /\ dht[h].entry_type = "Status" /\ dht[h].entry = Status_accept
       /\ dht[h].original_action_address = g
       /\ \E l \in links : l.link_type = "EntityStatus" /\ ~l.deleted
                           /\ l.target = ActionBase(h)

\* The outcome of the update_entity_status that a suspension operation
\* delegates to, for the caller, the hashes and the status it passes on.
Delegated(caller, input, new_status) ==
  update_entity_status_run(dht, links, caller,
    [entity |-> input.entity,
     entity_original_action_hash |-> input.entity_original_action_hash,
     status_original_action_hash |-> input.status_original_action_hash,
     status_previous_action_hash |-> input.status_previous_action_hash,
     new_status |-> new_status]).err

\* C14: when the update_entity_status they delegate to fails, with
\* Unauthorized for a caller who is not an administrator for one,
\* suspend_entity_temporarily, suspend_entity_indefinitely and
\* unsuspend_entity return that failure to their caller.
C14_Step ==
  /\ result'.op = "suspend_entity_temporarily" =>
       \A input \in SuspendEntityInputs :
         (/\ input.duration_in_days # 0
          /\ suspend_entity_temporarily(result'.caller, input)) =>
           LET err == Delegated(result'.caller, input,
                        Status_suspend(input.reason, input.duration_in_days, now))
           IN err # "Ok" => result'.outcome = err
  /\ result'.op = "suspend_entity_indefinitely" =>
       \A input \in SuspendEntityInputs :
         suspend_entity_indefinitely(result'.caller, input) =>
           LET err == Delegated(result'.caller, input,
                        Status_suspend(input.reason, 0, 0))
           IN err # "Ok" => result'.outcome = err
  /\ result'.op = "unsuspend_entity" =>
       \A input \in UpdateInputs :
         unsuspend_entity(result'.caller, input) =>
           LET err == Delegated(result'.caller, input, Status_accept)
           IN err # "Ok" => result'.outcome = err

C14_DelegatedFailureIsReturned == [][C14_Step]_vars

\* Entities that no create_status was called for: the exchange proposals.
ProposalHashes ==
  {h \in DOMAIN dht : dht[h].entry_type = "ExchangeProposal"}

\* update_entity_status called for a proposal.
ProposalUpdateEntityActionHashes ==
  {[entity |-> entity,
    entity_original_action_hash |-> h,
    status_original_action_hash |-> s[1],
    status_previous_action_hash |-> s[2],
    new_status |-> n] :
     entity \in EntityNames, h \in ProposalHashes, s \in StatusRefs,
     n \in NewStatuses}

UpdateProposalStatus ==
  \E caller \in Agents, input \in ProposalUpdateEntityActionHashes :
    update_entity_status(caller, input)

\* create_accepted_entity_link called for a proposal.
CreateAcceptedProposalLink ==
  \E caller \in Agents, entity \in EntityNames, h \in ProposalHashes :
    create_accepted_entity_link(caller,
      [entity |-> entity, entity_original_action_hash |-> h])

\* update_entity_status on entities that have no status tracker, one call
\* at a time.
NextBootstrap ==
  \/ Return
  \/ CreateUser
  \/ RegisterAdministrator
  \/ CreateExchangeProposal
  \/ UpdateProposalStatus

SpecBootstrap == Init /\ [][NextBootstrap]_vars

\* The same with the accepted bucket written directly.
NextBootstrapBucket ==
  \/ Return
  \/ CreateUser
  \/ RegisterAdministrator
  \/ CreateExchangeProposal
  \/ UpdateProposalStatus
  \/ CreateAcceptedProposalLink

SpecBootstrapBucket == Init /\ [][NextBootstrapBucket]_vars

\* C15: an administrator's update_entity_status for an entity that has no
\* current-status edge creates a Status that is new_status: afterwards the
\* entity has exactly one current-status edge, which targets that Status,
\* and it is in the accepted bucket if and only if new_status is accepted.
C15_Step ==
  (result'.op = "update_entity_status" /\ result'.outcome = "Ok") =>
    \A input \in ProposalUpdateEntityActionHashes :
      (/\ CurrentStatusEdges(links, input.entity_original_action_hash) = {}
       /\ update_entity_status(result'.caller, input)) =>
        LET edges == CurrentStatusEdges(links', input.entity_original_action_hash) IN
        /\ Cardinality(edges) = 1
        /\ \A l \in edges :
             /\ dht'[l.target[2]].action = "Create"
             /\ dht'[l.target[2]].entry_type = "Status"
             /\ dht'[l.target[2]].entry = input.new_status
             /\ l.target[2] \notin DOMAIN dht
        /\ check_if_entity_is_accepted(links',
             [entity |-> input.entity,
              entity_original_action_hash |-> input.entity_original_action_hash])
             <=> (input.new_status.status_type = "accepted")

C15_BootstrapCreatesTheStatus == [][C15_Step]_vars

\* A proposal has just been given its first Status, a rejected one.
ProposalBootstrapped ==
  /\ result.op = "update_entity_status" /\ result.outcome = "Ok"
  /\ \E h \in ProposalHashes :
       \E l \in CurrentStatusEdges(links, h) :
         /\ l.index = 1
         /\ dht[l.target[2]].action = "Create"
         /\ dht[l.target[2]].entry.status_type = "rejected"

\* --------------------------------------------- the status path buckets
MaxServiceTypes == 1
MaxMediumsOfExchange == 1
MaxMediumOfExchangeRevisions == 1
MaxStatusPathLinks == 2
MaxDeletes == 1

\* The hashes callers pass: the service type actions, the medium of
\* exchange actions (original or revision), and one unknown hash.
ServiceTypeHashes ==
  {h \in DOMAIN dht : dht[h].entry_type = "ServiceType"} \cup {NoHash}
MediumOfExchangeHashes ==
  {h \in DOMAIN dht : dht[h].entry_type = "MediumOfExchange"} \cup {NoHash}

\* The links of the status paths of one link type.
StatusPathLinks(L, link_type, paths) ==
  {l \in L : l.link_type = link_type /\ l.base \in paths}

BoundedBuckets(D, L) ==
  /\ Cardinality(Entries(D, "Create", "ServiceType")) <= MaxServiceTypes
  /\ Cardinality(Entries(D, "Create", "MediumOfExchange")) <= MaxMediumsOfExchange
  /\ Cardinality(Entries(D, "Update", "MediumOfExchange"))
       <= MaxMediumOfExchangeRevisions
  /\ Cardinality({h \in DOMAIN D : D[h].action = "Delete"}) <= MaxDeletes
  /\ Cardinality(StatusPathLinks(L, "AllServiceTypes", ServiceTypeStatusPaths))
       + Cardinality(StatusPathLinks(L, "AllMediumsOfExchange",
                                     MediumOfExchangeStatusPaths))
       <= MaxStatusPathLinks

\* A call of the service_types or of the mediums_of_exchange zome.
CommitBuckets(op, caller, r) ==
  /\ BoundedBuckets(r.dht, r.links)
  /\ Commit(op, caller, r.err, r.dht, r.links)

\* The externs of the two zomes, called by any agent with any exchange type
\* or hash.
CreateServiceType ==
  \E caller \in Agents :
    CommitBuckets("create_service_type", caller,
                  create_service_type_run(dht, links, caller))
SuggestServiceType ==
  \E caller \in Agents :
    CommitBuckets("suggest_service_type", caller,
                  suggest_service_type_run(dht, links, caller))
ApproveServiceType ==
  \E caller \in Agents, h \in ServiceTypeHashes :
    CommitBuckets("approve_service_type", caller,
                  approve_service_type_run(dht, links, caller, h))
RejectServiceType ==
  \E caller \in Agents, h \in ServiceTypeHashes :
    CommitBuckets("reject_service_type", caller,
                  reject_service_type_run(dht, links, caller, h))
RejectApprovedServiceType ==
  \E caller \in Agents, h \in ServiceTypeHashes :
    CommitBuckets("reject_approved_service_type", caller,
                  reject_approved_service_type_run(dht, links, caller, h))
DeleteServiceType ==
  \E caller \in Agents, h \in ServiceTypeHashes :
    CommitBuckets("delete_service_type", caller,
                  delete_service_type_run(dht, links, caller, h))
SuggestMediumOfExchange ==
  \E caller \in Agents, t \in ExchangeTypes :
    CommitBuckets("suggest_medium_of_exchange", caller,
                  suggest_medium_of_exchange_run(dht, links, caller, t))
CreateMediumOfExchange ==
  \E caller \in Agents, t \in ExchangeTypes :
    CommitBuckets("create_medium_of_exchange", caller,
                  create_medium_of_exchange_run(dht, links, caller, t))
ApproveMediumOfExchange ==
  \E caller \in Agents, h \in MediumOfExchangeHashes :
    CommitBuckets("approve_medium_of_exchange", caller,
                  approve_medium_of_exchange_run(dht, links, caller, h))
RejectMediumOfExchange ==
  \E caller \in Agents, h \in MediumOfExchangeHashes :
    CommitBuckets("reject_medium_of_exchange", caller,
                  reject_medium_of_exchange_run(dht, links, caller, h))
DeleteMediumOfExchange ==
  \E caller \in Agents, h \in MediumOfExchangeHashes :
    CommitBuckets("delete_medium_of_exchange", caller,
                  delete_medium_of_exchange_run(dht, links, caller, h))

\* The store in which the network has its two kinds of callers: a member
\* has created its user, an administrator has been registered and has
\* accepted the member's user.
Administered(member, administrator) ==
  LET user == create_user_run(EmptyStore, {}, member)
      admin == register_administrator_run(user.links,
                 [entity |-> "users", entity_original_action_hash |-> user.hash,
                  agent_pubkeys |-> <<administrator>>])
      status == first(get_links(admin.links, ActionBase(user.hash),
                                "EntityStatus")).target[2]
  IN update_entity_status_run(user.dht, admin.links, administrator,
       [entity |-> "users", entity_original_action_hash |-> user.hash,
        status_original_action_hash |-> status,
        status_previous_action_hash |-> status,
        new_status |-> Status_accept])

InitAdministered ==
  /\ \E member \in Agents : \E administrator \in Agents \ {member} :
       /\ dht = Administered(member, administrator).dht
       /\ links = Administered(member, administrator).links
  /\ now = 0
  /\ result = NoResult
  /\ calls = [a \in Agents |-> Idle]

\* The service type and medium of exchange operations, one call at a time.
NextBuckets ==
  \/ Return
  \/ CreateServiceType
  \/ SuggestServiceType
  \/ ApproveServiceType
  \/ RejectServiceType
  \/ RejectApprovedServiceType
  \/ DeleteServiceType
  \/ SuggestMediumOfExchange
  \/ CreateMediumOfExchange
  \/ ApproveMediumOfExchange
  \/ RejectMediumOfExchange
  \/ DeleteMediumOfExchange

SpecBuckets == InitAdministered /\ [][NextBuckets]_vars

\* The status paths that hold a live link to a hash.
BucketsOf(L, link_type, paths, h) ==
  {p \in paths : \E l \in get_links(L, p, link_type) : l.target = ActionBase(h)}

ActionHashes == DOMAIN dht \cup {NoHash}

\* A coordinator function resolves a hash: the call ends with the error or
\* with the hash that find_original_action_hash returns.
resolve_original(caller, action_hash) ==
  LET r == find_original_action_hash(dht, action_hash) IN
  /\ result = NoResult
  /\ Quiet
  /\ calls' = [calls EXCEPT ![caller] =
                 Ended(Reading("find_original_action_hash", action_hash, <<>>, 0),
                       r.err, r.hash)]
  /\ UNCHANGED <<dht, links, now, result>>

ResolveOriginal ==
  \E caller \in Agents, action_hash \in ActionHashes :
    resolve_original(caller, action_hash)

\* The store in which update chains grow: an agent has created its user and
\* an administrator has been registered.
Registered(member, administrator) ==
  LET user == create_user_run(EmptyStore, {}, member)
      admin == register_administrator_run(user.links,
                 [entity |-> "users", entity_original_action_hash |-> user.hash,
                  agent_pubkeys |-> <<administrator>>])
  IN [dht |-> user.dht, links |-> admin.links]

InitRegistered ==
  /\ \E member \in Agents, administrator \in Agents :
       /\ dht = Registered(member, administrator).dht
       /\ links = Registered(member, administrator).links
  /\ now = 0
  /\ result = NoResult
  /\ calls = [a \in Agents |-> Idle]

\* Update chains of users and of statuses, deleted entries, and the
\* resolution of any hash of the store, one call at a time.
NextChain ==
  \/ Return
  \/ Quiet /\ UpdateUser
  \/ Quiet /\ UpdateEntityStatusCore
  \/ Quiet /\ DeleteStatus
  \/ ResolveOriginal
  \/ ReturnCall

SpecChain == InitRegistered /\ [][NextChain]_vars

\* The calls of find_original_action_hash that have ended.
Resolved ==
  {calls[a] : a \in {b \in Agents : /\ calls[b].pc = "done"
                                    /\ calls[b].op = "find_original_action_hash"}}

\* C18: find_original_action_hash is idempotent at any chain depth: for
\* every hash x that it resolves, resolving the answer gives the answer
\* again.
C18_ResolveOriginalIsIdempotent ==
  \A call \in Resolved :
    call.outcome = "Ok"
      => find_original_action_hash(dht, call.hash)
           = [err |-> "Ok", hash |-> call.hash]

\* C18 witness: a hash two updates away from its Create has been resolved.
C18_Witness ==
  \E call \in Resolved :
    /\ call.outcome = "Ok"
    /\ dht[call.input].action = "Update"
    /\ dht[dht[call.input].original_action_address].action = "Update"
    /\ call.hash # call.input

\* The actions that a walk from a hash visits: the hash, and the action
\* that each visited Update with a record names, over as many hops as the
\* store has actions.
RECURSIVE Visited(_, _, _)
Visited(D, S, hops) ==
  IF hops = 0 THEN S
  ELSE Visited(D,
               S \cup {D[h].original_action_address :
                         h \in {k \in S : /\ get(D, k) # Missing
                                          /\ D[k].action = "Update"}},
               hops - 1)

UpdateChain(D, action_hash) == Visited(D, {action_hash}, Cardinality(DOMAIN D))

\* C19: for any hash, find_original_action_hash fails with RecordNotFound
\* when a visited action has no record in the store, fails with InvalidData
\* when a visited action is neither a Create nor an Update, and otherwise
\* returns the hash of the Create at the root of the update chain.
C19_ResolveOriginalReturnsTheRootCreate ==
  \A call \in Resolved :
    LET chain == UpdateChain(dht, call.input) IN
    IF \E h \in chain : get(dht, h) = Missing
    THEN call.outcome = "RecordNotFound"
    ELSE IF \E h \in chain : dht[h].action \notin {"Create", "Update"}
    THEN call.outcome = "InvalidData"
    ELSE /\ call.outcome = "Ok"
         /\ call.hash \in chain
         /\ dht[call.hash].action = "Create"
         /\ \A h \in chain \ {call.hash} : dht[h].action = "Update"

\* C19 witness: the store holds an Update of an Update, an Update whose
\* Create is deleted and a Delete action, and the hash of one of them has
\* been resolved.
C19_Witness ==
  /\ \E call \in Resolved :
       /\ call.input \in DOMAIN dht
       /\ dht[call.input].action \in {"Update", "Delete"}
  /\ \E h \in DOMAIN dht :
       /\ dht[h].action = "Update"
       /\ dht[dht[h].original_action_address].action = "Update"
       /\ find_original_action_hash(dht, h).err = "Ok"
  /\ \E h \in DOMAIN dht :
       /\ dht[h].action = "Update"
       /\ ~dht[h].deleted
       /\ find_original_action_hash(dht, h).err = "RecordNotFound"
  /\ \E h \in DOMAIN dht :
       /\ dht[h].action = "Delete"
       /\ find_original_action_hash(dht, h).err = "InvalidData"

\* ----------------------------------------- get_latest_status_for_entity
\* The revision that the updates edges of a status name as its newest, or
\* the status itself when it has no updates edge.
LatestRevision(L, status_hash) ==
  LET updates == get_links(L, ActionBase(status_hash), "StatusUpdates") IN
  IF updates = {} THEN status_hash ELSE latest(updates).target[2]

\* C20: for an entity with a current-status edge,
\* get_latest_status_for_entity returns the Status of the newest revision
\* that the updates edges of the first current-status edge target name,
\* and the Status of that target when it has no updates edge.
C20_LatestStatusWalksUpdates ==
  \A h \in DOMAIN dht :
    LET edges == CurrentStatusEdges(links, h) IN
    (/\ edges # {}
     /\ find_original_action_hash(dht, h) = [err |-> "Ok", hash |-> h])
      => get_latest_status_for_entity(dht, links,
           [entity |-> "users", entity_original_action_hash |-> h])
         = [err |-> "Ok",
            status |-> dht[LatestRevision(links, first(edges).target[2])].entry]

\* ------------------------------------------------ agreement status changes
\* The newest revision of an agreement: the last action written on it.
NewestRevision(D, agreement_hash) ==
  CHOOSE h \in Revisions(D, agreement_hash) :
    \A k \in Revisions(D, agreement_hash) : k[2] <= h[2]

\* C21: an agreement's status changes only from Active or InProgress: once
\* its newest revision is Completed, CancelledMutual, CancelledProvider,
\* CancelledReceiver, Failed or Disputed, no call writes a revision of it
\* with a different status.
C21_Step ==
  \A h \in DOMAIN dht' \ DOMAIN dht :
    (dht'[h].entry_type = "Agreement" /\ dht'[h].action = "Update") =>
      LET agreement_hash == find_original_action_hash(dht', h).hash
          newest == NewestRevision(dht, agreement_hash)
      IN dht[newest].entry.status \notin {"Active", "InProgress"}
           => dht'[h].entry.status = dht[newest].entry.status

C21_StatusChangesOnlyFromActive == [][C21_Step]_vars

\* ----------------------------------- exchanges: exchange_cancellation.rs
\* An ExchangeCancellation: who initiated it, the consent of the other
\* party ("None", "true" or "false") and whether an administrator has
\* reviewed it (the reason, the texts and the timestamps are left out).
new_mutual ==
  [initiated_by |-> "Both", other_party_consent |-> "true", admin_reviewed |-> FALSE]

new_unilateral(initiated_by) ==
  [initiated_by |-> initiated_by, other_party_consent |-> "None",
   admin_reviewed |-> FALSE]

record_other_party_response(cancellation, consent) ==
  [cancellation EXCEPT !.other_party_consent = IF consent THEN "true" ELSE "false"]

record_admin_review(cancellation) == [cancellation EXCEPT !.admin_reviewed = TRUE]

is_mutually_agreed(cancellation) ==
  \/ cancellation.initiated_by = "Both"
  \/ cancellation.other_party_consent = "true"

is_cancellation_disputed(cancellation) == cancellation.other_party_consent = "false"

is_pending_response(cancellation) ==
  /\ cancellation.initiated_by # "Both"
  /\ cancellation.other_party_consent = "None"

\* create_mutual_cancellation and create_unilateral_cancellation: the same
\* authorization and the same links around the entry each of them builds.
create_cancellation_run(D, L, caller, agreement_hash, cancellation) ==
  LET auth == check_accepted_user_or_administrator(L, caller) IN
  IF auth # "Ok" THEN Fail(D, L, auth)
  ELSE
    LET D1 == create_entry(D, caller, "ExchangeCancellation", cancellation)
        cancellation_hash == hash_action(D, "ExchangeCancellation")
        L1 == create_link(L, ActionBase(agreement_hash),
                          ActionBase(cancellation_hash), "AgreementToCancellation")
        L2 == create_link(L1, ActionBase(cancellation_hash), AgentBase(caller),
                          "CancellationToInitiator")
        L3 == create_link(L2, PathBase("exchanges", "cancellations.all"),
                          ActionBase(cancellation_hash), "AllCancellations")
    IN Done(D1, L3, cancellation_hash)

\* current_record.entry().to_app_option::<ExchangeCancellation>() of the
\* record that get returns for the hash the caller passes.
get_cancellation_entry(D, cancellation_hash) ==
  LET current_record == get(D, cancellation_hash) IN
  IF current_record = Missing THEN [err |-> "EntryNotFound", cancellation |-> <<>>]
  ELSE IF current_record.action = "Delete"
  THEN [err |-> "EntryNotFound", cancellation |-> <<>>]
  ELSE IF current_record.entry_type # "ExchangeCancellation"
  THEN [err |-> "Serialize", cancellation |-> <<>>]
  ELSE [err |-> "Ok", cancellation |-> current_record.entry]

respond_to_cancellation_run(D, L, caller, input) ==
  LET current == get_cancellation_entry(D, input.cancellation_hash) IN
  IF current.err # "Ok" THEN Fail(D, L, current.err)
  ELSE Done(update_entry(D, caller, input.cancellation_hash, "ExchangeCancellation",
                         record_other_party_response(current.cancellation,
                                                     input.consent)),
            L, hash_action(D, "ExchangeCancellation"))

admin_review_cancellation_run(D, L, caller, input) ==
  IF ~exchanges_check_if_agent_is_administrator(L, caller)
  THEN Fail(D, L, "Unauthorized")
  ELSE
    LET current == get_cancellation_entry(D, input.cancellation_hash) IN
    IF current.err # "Ok" THEN Fail(D, L, current.err)
    ELSE Done(update_entry(D, caller, input.cancellation_hash,
                           "ExchangeCancellation",
                           record_admin_review(current.cancellation)),
              L, hash_action(D, "ExchangeCancellation"))

MaxCancellations == 1
MaxCancellationRevisions == 2

\* The hashes callers pass: the cancellation actions (original or revision)
\* and one unknown hash.
CancellationHashes ==
  {h \in DOMAIN dht : dht[h].entry_type = "ExchangeCancellation"} \cup {NoHash}

\* A call of the cancellation flow.
CommitCancellation(op, caller, r) ==
  /\ Cardinality(Entries(r.dht, "Create", "ExchangeCancellation")) <= MaxCancellations
  /\ Cardinality(Entries(r.dht, "Update", "ExchangeCancellation"))
       <= MaxCancellationRevisions
  /\ Commit(op, caller, r.err, r.dht, r.links)

CreateMutualCancellation ==
  \E caller \in Agents, agreement_hash \in AgreementHashes :
    CommitCancellation("create_mutual_cancellation", caller,
      create_cancellation_run(dht, links, caller, agreement_hash, new_mutual))
CreateUnilateralCancellation ==
  \E caller \in Agents, agreement_hash \in AgreementHashes,
     initiated_by \in {"Provider", "Receiver"} :
    CommitCancellation("create_unilateral_cancellation", caller,
      create_cancellation_run(dht, links, caller, agreement_hash,
                              new_unilateral(initiated_by)))
RespondToCancellation ==
  \E caller \in Agents, h \in CancellationHashes, consent \in BOOLEAN :
    CommitCancellation("respond_to_cancellation", caller,
      respond_to_cancellation_run(dht, links, caller,
                                  [cancellation_hash |-> h, consent |-> consent]))
AdminReviewCancellation ==
  \E caller \in Agents, h \in CancellationHashes :
    CommitCancellation("admin_review_cancellation", caller,
      admin_review_cancellation_run(dht, links, caller, [cancellation_hash |-> h]))

\* The cancellation flow on an agreement, one call at a time.
NextCancellation ==
  \/ Return
  \/ CreateMutualCancellation
  \/ CreateUnilateralCancellation
  \/ RespondToCancellation
  \/ AdminReviewCancellation

SpecCancellation == InitAgreed /\ [][NextCancellation]_vars

\* The sub-state of a cancellation.
SubState(cancellation) ==
  IF cancellation.admin_reviewed THEN "admin-reviewed"
  ELSE IF is_mutually_agreed(cancellation) THEN "mutually-agreed"
  ELSE IF is_cancellation_disputed(cancellation) THEN "disputed"
  ELSE "pending-response"

\* C22: every revision that respond_to_cancellation or
\* admin_review_cancellation writes either keeps the sub-state of the
\* cancellation it updates or changes it from pending-response to
\* mutually-agreed, from pending-response to disputed, or from disputed to
\* admin-reviewed.
C22_Step ==
  \A h \in DOMAIN dht' \ DOMAIN dht :
    dht'[h].entry_type = "ExchangeCancellation" /\ dht'[h].action = "Update" =>
      LET from == SubState(dht[dht'[h].original_action_address].entry)
          to == SubState(dht'[h].entry)
      IN \/ from = to
         \/ <<from, to>> \in {<<"pending-response", "mutually-agreed">>,
                              <<"pending-response", "disputed">>,
                              <<"disputed", "admin-reviewed">>}

C22_CancellationSubStates == [][C22_Step]_vars

\* ------------------------------------------- service_types: the tag index
ALL_TAGS_PATH == PathBase("service_types", "all_tags")

\* A tag is a string, kept as the sequence of its characters so that the
\* tag_prefix filter of get_links can be computed.
Tags == {<<"a">>, <<"a", "b">>}

MaxTags == 2
MaxTaggedServiceTypes == 2
MaxTagLinks == 3

\* The tags of a ServiceType: a Vec<String>, repetitions allowed.
TagLists == UNION {[1..n -> Tags] : n \in 0..MaxTags}

\* create_link with a LinkTag that is not ().
create_link_tagged(L, base, target, link_type, tag) ==
  L \cup {[base |-> base, link_type |-> link_type,
           index |-> Cardinality({l \in L : l.base = base /\ l.link_type = link_type}) + 1,
           target |-> target, deleted |-> FALSE, tag |-> tag]}

\* The filter that answers no link of the path.
tag_prefix_none(tag, prefix) == FALSE

\* The filter of the host: the tag of the link starts with the prefix.
tag_prefix(tag, prefix) ==
  /\ Len(prefix) <= Len(tag)
  /\ SubSeq(tag, 1, Len(prefix)) = prefix

\* The loop of index_service_type_tags over the tags from position i on.
RECURSIVE index_service_type_tags(_, _, _, _)
index_service_type_tags(L, tags, service_type_hash, i) ==
  IF i > Len(tags) THEN L
  ELSE
    LET tag == tags[i]
        tag_path == <<"path", "service_types", "tags", tag>>
        L1 == create_link(L, tag_path, ActionBase(service_type_hash),
                          "AllServiceTypes")
        existing_tag_links ==
          {l \in get_links(L1, ALL_TAGS_PATH, "AllServiceTypes") :
             tag_prefix(l.tag, tag)}
        L2 == IF existing_tag_links = {}
              THEN create_link_tagged(L1, ALL_TAGS_PATH, tag_path,
                                      "AllServiceTypes", tag)
              ELSE L1
    IN index_service_type_tags(L2, tags, service_type_hash, i + 1)

\* create_service_type and suggest_service_type of a service type with
\* tags: the tags are indexed last, once the status link is written.
index_tags_of(r, tags) ==
  IF r.err # "Ok" THEN r
  ELSE Done(r.dht, index_service_type_tags(r.links, tags, r.hash, 1), r.hash)

CommitTagged(op, caller, r) ==
  /\ Cardinality(Entries(r.dht, "Create", "ServiceType")) <= MaxTaggedServiceTypes
  /\ Cardinality({l \in r.links : l.base[1] = "path" /\ l.base[3] = "tags"})
       <= MaxTagLinks
  /\ Commit(op, caller, r.err, r.dht, r.links)

CreateTaggedServiceType ==
  \E caller \in Agents, tags \in TagLists :
    CommitTagged("create_service_type", caller,
      index_tags_of(create_service_type_run(dht, links, caller), tags))
SuggestTaggedServiceType ==
  \E caller \in Agents, tags \in TagLists :
    CommitTagged("suggest_service_type", caller,
      index_tags_of(suggest_service_type_run(dht, links, caller), tags))

NextTags ==
  \/ Return
  \/ CreateTaggedServiceType
  \/ SuggestTaggedServiceType

SpecTags == InitAdministered /\ [][NextTags]_vars

\* The live edges of the all_tags path.
AllTagsEdges == get_links(links, ALL_TAGS_PATH, "AllServiceTypes")

\* C23: after any sequence of service type creations and suggestions made
\* one at a time, the all_tags path holds at most one live edge per tag.
C23_OneEdgePerTag ==
  \A l \in AllTagsEdges : \A m \in AllTagsEdges : l.tag = m.tag => l = m

\* A second service type was created with a tag that the all_tags path
\* already held, and the path still holds it once.
C23_Witness ==
  /\ result.outcome = "Ok"
  /\ \E l \in AllTagsEdges :
       Cardinality({k.target : k \in get_links(links, l.target,
                                                "AllServiceTypes")}) >= 2

\* C24: create_accepted_entity_link and delete_status, called by an agent
\* who is not an administrator and has authored nothing, fail and leave
\* every edge as it was.
C24_Step ==
  (/\ result = NoResult /\ result' # NoResult
   /\ result'.op \in {"create_accepted_entity_link", "delete_status"}
   /\ ~IsAdministrator(result'.caller)
   /\ \A h \in DOMAIN dht : dht[h].author # result'.caller) =>
    /\ result'.outcome \notin {"Ok", "Ok(true)", "Ok(false)"}
    /\ links' = links

C24_StatusEdgesAreGated == [][C24_Step]_vars

\* ------------------------------ administration.rs: adding and removing
add_administrator_run(L, caller, input) ==
  IF ~check_if_agent_is_administrator(L,
        [entity |-> input.entity, agent_pubkey |-> caller])
  THEN [err |-> "Unauthorized", links |-> L]
  ELSE register_administrator_run(L, input)

\* remove_administrator up to the administrators it has read.
remove_administrator_read(L, caller, input) ==
  IF ~check_if_agent_is_administrator(L,
        [entity |-> input.entity, agent_pubkey |-> caller])
  THEN [err |-> "Unauthorized", administrators_links |-> {}]
  ELSE
    LET administrators_links == get_all_administrators_links(L, input.entity) IN
    IF Cardinality(administrators_links) = 1
    THEN [err |-> "LastAdmin", administrators_links |-> {}]
    ELSE [err |-> "Ok", administrators_links |-> administrators_links]

\* The loop of remove_administrator over input.agent_pubkeys.
RECURSIVE remove_agents(_, _)
remove_agents(L, agent_pubkeys) ==
  IF agent_pubkeys = <<>> THEN [err |-> "Ok", links |-> L]
  ELSE
    LET ls == get_links(L, AgentBase(Head(agent_pubkeys)), "AgentAdministrators") IN
    IF ls = {} THEN [err |-> "LinkNotFound", links |-> L]
    ELSE remove_agents(delete_link(L, create_link_hash(first(ls))),
                       Tail(agent_pubkeys))

\* remove_administrator from the administrators it has read on.
remove_administrator_write(L, input, administrators_links) ==
  LET found == {l \in administrators_links :
                  l.target = ActionBase(input.entity_original_action_hash)}
  IN IF found = {} THEN [err |-> "LinkNotFound", links |-> L]
     ELSE
       LET r == remove_agents(delete_link(L, create_link_hash(first(found))),
                              input.agent_pubkeys)
       IN IF r.err # "Ok" THEN [err |-> r.err, links |-> L] ELSE r

MaxAdministratorLinks == 3

\* Two users, the first of them registered as administrator with the key of
\* its author.
TwoUsers ==
  LET first_user == create_user_run(EmptyStore, {}, "a1")
      second_user == create_user_run(first_user.dht, first_user.links, "a2")
      admin == register_administrator_run(second_user.links,
                 [entity |-> "users", entity_original_action_hash |-> first_user.hash,
                  agent_pubkeys |-> <<"a1">>])
  IN [dht |-> second_user.dht, links |-> admin.links]

InitTwoUsers ==
  /\ dht = TwoUsers.dht
  /\ links = TwoUsers.links
  /\ now = 0
  /\ result = NoResult
  /\ calls = [a \in Agents |-> Idle]

\* What callers pass: a user and the key of one agent.
AdministratorInputs ==
  {[entity |-> "users", entity_original_action_hash |-> h, agent_pubkeys |-> <<a>>] :
     h \in Entries(dht, "Create", "User"), a \in Agents}

\* A call of the administration zome made while no other call is in flight.
CommitAdministration(op, caller, r) ==
  /\ result = NoResult
  /\ Quiet
  /\ Cardinality(LinksOfType(r.links, "AllAdministrators")) <= MaxAdministratorLinks
  /\ links' = r.links
  /\ result' = [op |-> op, caller |-> caller, outcome |-> r.err]
  /\ UNCHANGED <<dht, now, calls>>

RegisterAdministratorOf ==
  \E caller \in Agents, input \in AdministratorInputs :
    CommitAdministration("register_administrator", caller,
                         register_administrator_run(links, input))
AddAdministrator ==
  \E caller \in Agents, input \in AdministratorInputs :
    CommitAdministration("add_administrator", caller,
                         add_administrator_run(links, caller, input))

\* remove_administrator calls of several agents overlap: each reads the
\* administrators, and writes later.
BeginRemoveAdministrator ==
  \E caller \in Agents, input \in AdministratorInputs :
    LET r == remove_administrator_read(links, caller, input) IN
    /\ result = NoResult
    /\ calls[caller].pc = "idle"
    /\ calls' = [calls EXCEPT ![caller] =
                   IF r.err = "Ok"
                   THEN Reading("remove_administrator", input,
                                r.administrators_links, 0)
                   ELSE Ended([Idle EXCEPT !.op = "remove_administrator"],
                              r.err, NoHash)]
    /\ UNCHANGED <<dht, links, now, result>>
EndRemoveAdministrator ==
  \E caller \in Agents :
    LET call == calls[caller]
        w == remove_administrator_write(links, call.input, call.read)
    IN /\ call.pc = "read"
       /\ call.op = "remove_administrator"
       /\ links' = w.links
       /\ calls' = [calls EXCEPT ![caller] = Ended(call, w.err, NoHash)]
       /\ UNCHANGED <<dht, now, result>>

NextAdministration ==
  \/ Return
  \/ RegisterAdministratorOf
  \/ AddAdministrator
  \/ BeginRemoveAdministrator
  \/ EndRemoveAdministrator
  \/ ReturnCall

SpecAdministration == InitTwoUsers /\ [][NextAdministration]_vars

\* The CreateLinks of the two administrator indexes.
AdministratorIndexes(L) ==
  {create_link_hash(l) : l \in LinksOfType(L, "AllAdministrators")
                               \cup LinksOfType(L, "AgentAdministrators")}

\* C25: while an administrator exists, a call of an agent who is not an
\* administrator adds nothing to the AllAdministrators and the
\* AgentAdministrators index, and its register_administrator and
\* add_administrator do not end Ok.
C25_Step ==
  (/\ result = NoResult /\ result' # NoResult
   /\ \E a \in Agents : IsAdministrator(a)
   /\ ~IsAdministrator(result'.caller)) =>
    /\ AdministratorIndexes(links') \subseteq AdministratorIndexes(links)
    /\ result'.op \in {"register_administrator", "add_administrator"} =>
         result'.outcome # "Ok"

C25_OnlyAdministratorsAddAdministrators == [][C25_Step]_vars

\* C26: once an administrator has been registered, the AllAdministrators
\* index keeps at least one live edge, whatever the interleaving of the
\* remove_administrator calls.
C26_AdministratorsNeverEmpty ==
  LinksOfType(links, "AllAdministrators") # {} =>
    get_all_administrators_links(links, "users") # {}

\* ------------------------- service_type.rs: approve and reject that overlap
\* The live links that remove_service_type_from_status_paths finds.
status_links_of_service_type(L, service_type_hash) ==
  {l \in L : /\ l.link_type = "AllServiceTypes"
             /\ l.base \in ServiceTypeStatusPaths
             /\ l.target = ActionBase(service_type_hash)
             /\ ~l.deleted}

\* The check that looks at the caller only.
move_service_type_check_caller_only(L, caller, service_type_hash) ==
  IF ~service_types_check_if_agent_is_administrator(L, caller)
  THEN "Unauthorized"
  ELSE "Ok"

\* approve_service_type and reject_service_type up to found_pending.
move_service_type_check(L, caller, service_type_hash) ==
  IF ~service_types_check_if_agent_is_administrator(L, caller)
  THEN "Unauthorized"
  ELSE IF ~\E l \in get_links(L, PENDING_SERVICE_TYPES_PATH, "AllServiceTypes") :
             l.target = ActionBase(service_type_hash)
  THEN "InvalidData(not pending)"
  ELSE "Ok"

\* The writes of the call re-reading the status paths when they are made.
move_service_type_write_fresh(L, service_type_hash, found, to) ==
  create_link(remove_service_type_from_status_paths(L, service_type_hash),
              to, ActionBase(service_type_hash), "AllServiceTypes")

\* The writes of the call: a delete_link for each link that
\* remove_service_type_from_status_paths found, and the link of the new
\* status path.
move_service_type_write(L, service_type_hash, found, to) ==
  create_link({IF \E f \in found : create_link_hash(f) = create_link_hash(l)
               THEN [l EXCEPT !.deleted = TRUE] ELSE l : l \in L},
              to, ActionBase(service_type_hash), "AllServiceTypes")

MoveOperations == {"approve_service_type", "reject_service_type"}

MoveTarget(op) ==
  IF op = "approve_service_type" THEN APPROVED_SERVICE_TYPES_PATH
  ELSE REJECTED_SERVICE_TYPES_PATH

\* The call passes its pending check, or ends on it.
BeginMoveServiceType ==
  \E caller \in Agents, op \in MoveOperations, h \in ServiceTypeHashes :
    LET err == move_service_type_check(links, caller, h) IN
    /\ result = NoResult
    /\ calls[caller].pc = "idle"
    /\ calls' = [calls EXCEPT ![caller] =
                   IF err = "Ok" THEN Reading(op, h, {}, 0)
                   ELSE Ended([Idle EXCEPT !.op = op], err, NoHash)]
    /\ UNCHANGED <<dht, links, now, result>>

\* The call reads the three status paths.
LookMoveServiceType ==
  \E caller \in Agents :
    LET call == calls[caller] IN
    /\ call.pc = "read"
    /\ call.op \in MoveOperations
    /\ calls' = [calls EXCEPT ![caller] =
                   [call EXCEPT !.pc = "found",
                                !.read = status_links_of_service_type(links, call.input)]]
    /\ UNCHANGED <<dht, links, now, result>>

\* The call writes and ends.
EndMoveServiceType ==
  \E caller \in Agents :
    LET call == calls[caller] IN
    /\ call.pc = "found"
    /\ call.op \in MoveOperations
    /\ links' = move_service_type_write(links, call.input, call.read,
                                        MoveTarget(call.op))
    /\ calls' = [calls EXCEPT ![caller] = Ended(call, "Ok", NoHash)]
    /\ UNCHANGED <<dht, now, result>>

\* A user registered as administrator with the keys of both agents.
TwoAdministrators ==
  LET user == create_user_run(EmptyStore, {}, "a1")
      admin == register_administrator_run(user.links,
                 [entity |-> "users", entity_original_action_hash |-> user.hash,
                  agent_pubkeys |-> <<"a1", "a2">>])
  IN [dht |-> user.dht, links |-> admin.links]

InitTwoAdministrators ==
  /\ dht = TwoAdministrators.dht
  /\ links = TwoAdministrators.links
  /\ now = 0
  /\ result = NoResult
  /\ calls = [a \in Agents |-> Idle]

\* Service types are suggested while no call is in flight; the approve and
\* reject calls of the two administrators overlap.
NextServiceTypeRace ==
  \/ Return
  \/ Quiet /\ SuggestServiceType
  \/ BeginMoveServiceType
  \/ LookMoveServiceType
  \/ EndMoveServiceType
  \/ ReturnCall

SpecServiceTypeRace == InitTwoAdministrators /\ [][NextServiceTypeRace]_vars

ServiceTypeBuckets(L, h) == BucketsOf(L, "AllServiceTypes", ServiceTypeStatusPaths, h)

\* An approve and a reject of one service type have both ended Ok, and each
\* had read the status paths before the other wrote.
RacedMove(a, b, h) ==
  /\ calls[a].pc = "done" /\ calls[a].op = "approve_service_type"
  /\ calls[b].pc = "done" /\ calls[b].op = "reject_service_type"
  /\ calls[a].outcome = "Ok" /\ calls[b].outcome = "Ok"
  /\ calls[a].input = h /\ calls[b].input = h
  /\ \A l \in calls[a].read \cup calls[b].read : l.base = PENDING_SERVICE_TYPES_PATH

InBothBuckets(L, h) ==
  {APPROVED_SERVICE_TYPES_PATH, REJECTED_SERVICE_TYPES_PATH}
    \subseteq ServiceTypeBuckets(L, h)

\* C27: when an approve_service_type and a reject_service_type of the same
\* pending service type overlap so that neither reads a write of the other,
\* the service type ends in the approved and in the rejected bucket; and a
\* service type that is in both stays in both.
C27_Step ==
  \A h \in ServiceTypeHashes :
    /\ (\E a \in Agents, b \in Agents : RacedMove(a, b, h)) => InBothBuckets(links, h)
    /\ InBothBuckets(links, h) => InBothBuckets(links', h)

RejectApprovedServiceTypeAlone ==
  \E caller \in Agents, h \in ServiceTypeHashes :
    LET r == reject_approved_service_type_run(dht, links, caller, h) IN
    /\ result = NoResult
    /\ Quiet
    /\ links' = r.links
    /\ calls' = [calls EXCEPT ![caller] =
                   Ended(Reading("reject_approved_service_type", h, {}, 0),
                         r.err, NoHash)]
    /\ UNCHANGED <<dht, now, result>>

\* The three moves of a service type: approve and reject calls that
\* overlap, and reject_approved_service_type between them.
NextServiceTypeMoves ==
  \/ Return
  \/ Quiet /\ SuggestServiceType
  \/ BeginMoveServiceType
  \/ LookMoveServiceType
  \/ EndMoveServiceType
  \/ RejectApprovedServiceTypeAlone
  \/ ReturnCall

SpecServiceTypeMoves == InitTwoAdministrators /\ [][NextServiceTypeMoves]_vars

\* An agent calls one of the three moves on h.
CallsMove(caller, h) ==
  /\ calls[caller].pc = "idle"
  /\ calls'[caller].pc # "idle"
  /\ calls'[caller].op \in MoveOperations \cup {"reject_approved_service_type"}
  /\ calls'[caller].input = h

\* The call has ended with a failure and the buckets of h are as they were.
MoveRefused(caller, h) ==
  /\ calls'[caller].pc = "done"
  /\ calls'[caller].outcome # "Ok"
  /\ ServiceTypeBuckets(links', h) = ServiceTypeBuckets(links, h)

\* C28 as stated: approve_service_type, reject_service_type and
\* reject_approved_service_type called on a service type that is in the
\* rejected bucket fail and leave its buckets unchanged.
C28_StepAsStated ==
  \A caller \in Agents, h \in ServiceTypeHashes :
    (CallsMove(caller, h)
       /\ REJECTED_SERVICE_TYPES_PATH \in ServiceTypeBuckets(links, h))
      => MoveRefused(caller, h)

C28_RejectedStaysRejectedAsStated == [][C28_StepAsStated]_vars

\* C28 amended: approve_service_type, reject_service_type and
\* reject_approved_service_type called on a service type that is in the
\* rejected bucket and in no other fail and leave its buckets unchanged.
C28_StepAmended ==
  \A caller \in Agents, h \in ServiceTypeHashes :
    (CallsMove(caller, h)
       /\ ServiceTypeBuckets(links, h) = {REJECTED_SERVICE_TYPES_PATH})
      => MoveRefused(caller, h)

C28_RejectedOnlyStaysRejected == [][C28_StepAmended]_vars

\* A move was called on a service type that is in the rejected bucket only,
\* and was refused.
C28_Witness ==
  \E caller \in Agents :
    /\ calls[caller].pc = "done"
    /\ calls[caller].input \in DOMAIN dht
    /\ calls[caller].outcome \in {"InvalidData(not pending)",
                                  "InvalidData(not approved)"}
    /\ ServiceTypeBuckets(links, calls[caller].input) = {REJECTED_SERVICE_TYPES_PATH}

\* ------------------------- mediums of exchange: the moves between buckets
MaxMediumStatusLinks == 3

\* A call of the mediums_of_exchange zome.
CommitMediums(op, caller, r) ==
  /\ Cardinality(Entries(r.dht, "Create", "MediumOfExchange")) <= MaxMediumsOfExchange
  /\ Cardinality(StatusPathLinks(r.links, "AllMediumsOfExchange",
                                 MediumOfExchangeStatusPaths)) <= MaxMediumStatusLinks
  /\ Commit(op, caller, r.err, r.dht, r.links)

SuggestMedium ==
  \E caller \in Agents, t \in ExchangeTypes :
    CommitMediums("suggest_medium_of_exchange", caller,
                  suggest_medium_of_exchange_run(dht, links, caller, t))
ApproveMedium ==
  \E caller \in Agents, h \in MediumOfExchangeHashes :
    CommitMediums("approve_medium_of_exchange", caller,
                  approve_medium_of_exchange_run(dht, links, caller, h))
RejectMedium ==
  \E caller \in Agents, h \in MediumOfExchangeHashes :
    CommitMediums("reject_medium_of_exchange", caller,
                  reject_medium_of_exchange_run(dht, links, caller, h))

NextMediums ==
  \/ Return
  \/ SuggestMedium
  \/ ApproveMedium
  \/ RejectMedium

SpecMediums == InitAdministered /\ [][NextMediums]_vars

MediumBuckets(L, h) ==
  BucketsOf(L, "AllMediumsOfExchange", MediumOfExchangeStatusPaths, h)

\* C29: no operation puts a medium of exchange that is in the rejected
\* bucket into the approved or the pending bucket.
C29_Step ==
  \A h \in MediumOfExchangeHashes :
    MediumBuckets(links, h) = {REJECTED_MEDIUMS_OF_EXCHANGE_PATH} =>
      /\ APPROVED_MEDIUMS_OF_EXCHANGE_PATH \notin MediumBuckets(links', h)
      /\ PENDING_MEDIUMS_OF_EXCHANGE_PATH \notin MediumBuckets(links', h)

C29_RejectedMediumStaysRejected == [][C29_Step]_vars

\* ------------------ service_type.rs: links of requests, offers and users
ServiceTypeToEntity(entity) ==
  CASE entity = "request" -> "ServiceTypeToRequest"
    [] entity = "offer" -> "ServiceTypeToOffer"
    [] OTHER -> "ServiceTypeToUser"

EntityToServiceType(entity) ==
  CASE entity = "request" -> "RequestToServiceType"
    [] entity = "offer" -> "OfferToServiceType"
    [] OTHER -> "UserToServiceType"

is_service_type_approved(L, service_type_hash) ==
  \E l \in get_links(L, APPROVED_SERVICE_TYPES_PATH, "AllServiceTypes") :
    l.target = ActionBase(service_type_hash)

link_to_service_type_run(D, L, input) ==
  IF /\ input.entity \in {"request", "offer"}
     /\ ~is_service_type_approved(L, input.service_type_hash)
  THEN Fail(D, L, "InvalidData(not approved)")
  ELSE
    LET L1 == create_link(L, ActionBase(input.service_type_hash),
                          ActionBase(input.action_hash),
                          ServiceTypeToEntity(input.entity))
        L2 == create_link(L1, ActionBase(input.action_hash),
                          ActionBase(input.service_type_hash),
                          EntityToServiceType(input.entity))
    IN Done(D, L2, NoHash)

\* The first link of each direction between the two hashes is deleted.
unlink_from_service_type(L, input) ==
  LET forward == {l \in get_links(L, ActionBase(input.service_type_hash),
                                  ServiceTypeToEntity(input.entity)) :
                    l.target = ActionBase(input.action_hash)}
      L1 == IF forward = {} THEN L ELSE delete_link(L, create_link_hash(first(forward)))
      backward == {l \in get_links(L1, ActionBase(input.action_hash),
                                   EntityToServiceType(input.entity)) :
                     l.target = ActionBase(input.service_type_hash)}
  IN IF backward = {} THEN L1 ELSE delete_link(L1, create_link_hash(first(backward)))

\* The loops of reject_approved_service_type over the request links and the
\* offer links it has read.
RECURSIVE unlink_each(_, _, _, _)
unlink_each(L, service_type_hash, entity, found) ==
  IF found = {} THEN L
  ELSE unlink_each(
         unlink_from_service_type(L,
           [service_type_hash |-> service_type_hash,
            action_hash |-> first(found).target[2], entity |-> entity]),
         service_type_hash, entity, found \ {first(found)})

\* reject_approved_service_type with its clean-up of the links to requests
\* and offers.
reject_approved_service_type_clean_run(D, L, caller, service_type_hash) ==
  LET r == reject_approved_service_type_run(D, L, caller, service_type_hash) IN
  IF r.err # "Ok" THEN r
  ELSE
    LET L1 == unlink_each(r.links, service_type_hash, "request",
                          get_links(r.links, ActionBase(service_type_hash),
                                    "ServiceTypeToRequest"))
        L2 == unlink_each(L1, service_type_hash, "offer",
                          get_links(L1, ActionBase(service_type_hash),
                                    "ServiceTypeToOffer"))
    IN Done(r.dht, L2, NoHash)

MaxServiceTypeLinks == 2

\* The request and the offer that callers link; neither is looked up.
LinkedEntities ==
  {[entity |-> "request", action_hash |-> <<"Request", 1>>],
   [entity |-> "offer", action_hash |-> <<"Offer", 1>>]}

CommitLinks(op, caller, r) ==
  /\ Cardinality(LinksOfType(r.links, "ServiceTypeToRequest")
                   \cup LinksOfType(r.links, "ServiceTypeToOffer"))
       <= MaxServiceTypeLinks
  /\ CommitBuckets(op, caller, r)

LinkToServiceType ==
  \E caller \in Agents, e \in LinkedEntities, h \in ServiceTypeHashes :
    CommitLinks("link_to_service_type", caller,
      link_to_service_type_run(dht, links,
        [service_type_hash |-> h, action_hash |-> e.action_hash,
         entity |-> e.entity]))
UnlinkFromServiceType ==
  \E caller \in Agents, e \in LinkedEntities, h \in ServiceTypeHashes :
    CommitLinks("unlink_from_service_type", caller,
      Done(dht, unlink_from_service_type(links,
                  [service_type_hash |-> h, action_hash |-> e.action_hash,
                   entity |-> e.entity]), NoHash))
RejectApprovedServiceTypeClean ==
  \E caller \in Agents, h \in ServiceTypeHashes :
    CommitLinks("reject_approved_service_type", caller,
      reject_approved_service_type_clean_run(dht, links, caller, h))

\* Service types are created, suggested, approved, linked to a request and
\* an offer, rejected and deleted, one call at a time.
NextServiceTypeLinks ==
  \/ Return
  \/ CreateServiceType
  \/ SuggestServiceType
  \/ ApproveServiceType
  \/ RejectServiceType
  \/ LinkToServiceType
  \/ UnlinkFromServiceType
  \/ RejectApprovedServiceTypeClean
  \/ DeleteServiceType

SpecServiceTypeLinks == InitAdministered /\ [][NextServiceTypeLinks]_vars

\* The live request and offer links of the service types, of both
\* directions, as <<service type, entity>>.
ServiceTypeLinks ==
  {<<l.base[2], l.target[2]>> :
     l \in {k \in links : /\ k.link_type \in {"ServiceTypeToRequest",
                                              "ServiceTypeToOffer"}
                          /\ ~k.deleted}}
  \cup
  {<<l.target[2], l.base[2]>> :
     l \in {k \in links : /\ k.link_type \in {"RequestToServiceType",
                                              "OfferToServiceType"}
                          /\ ~k.deleted}}

\* C30: every service type that a request or an offer is linked to is in
\* the approved bucket.
C30_LinkedServiceTypesAreApproved ==
  \A p \in ServiceTypeLinks : is_service_type_approved(links, p[1])

\* The tags that some service type carries: those whose tag path holds a
\* link to a service type.
CarriedTags ==
  {l.base[4] : l \in {k \in links : /\ k.base[1] = "path"
                                    /\ Len(k.base) = 4
                                    /\ k.base[3] = "tags"
                                    /\ ~k.deleted}}

\* C38: every tag that a created or suggested service type carries is the
\* tag of a live edge of the all_tags path.
C38_EveryTagIsListed ==
  \A t \in CarriedTags : \E l \in AllTagsEdges : l.tag = t

\* The status paths that hold a live link to the agreement or to one of
\* its revisions.
AgreementBuckets(D, L, agreement_hash) ==
  {l.base : l \in {k \in L : /\ k.link_type = "AgreementsByStatus"
                             /\ ~k.deleted
                             /\ k.target[2] \in Revisions(D, agreement_hash)}}

\* C37: after any sequence of create_agreement, update_agreement_status and
\* validate_completion calls made one at a time, the status paths that hold
\* an agreement are exactly the path of the status of its newest revision.
C37_OneBucketOfTheNewestStatus ==
  \A A \in Entries(dht, "Create", "Agreement") :
    AgreementBuckets(dht, links, A)
      = {PathBase("exchanges",
                  agreement_status_path(dht[NewestRevision(dht, A)].entry.status))}

\* The live edges of the accepted bucket of an entity that target a hash.
AcceptedEdges(L, entity, h) ==
  {l \in get_accepted_entities(L, entity) : l.target = ActionBase(h)}

\* C39: after any sequence of update_entity_status calls made one at a
\* time, the accepted bucket holds at most one live edge per entity.
C39_AtMostOneAcceptedEdge ==
  \A entity \in EntityNames, h \in DOMAIN dht :
    Cardinality(AcceptedEdges(links, entity, h)) <= 1

\* An entity that was in the accepted bucket has been approved again: its
\* earlier edge is deleted and it has one live edge.
C39_Witness ==
  /\ result.op = "update_entity_status" /\ result.outcome = "Ok"
  /\ \E entity \in EntityNames, h \in DOMAIN dht :
       /\ Cardinality(AcceptedEdges(links, entity, h)) = 1
       /\ \E l \in links : /\ l.link_type = "AcceptedEntity"
                           /\ l.target = ActionBase(h)
                           /\ l.deleted

\* ------------------------------------------------ requests: request.rs
\* A Request: its ListingStatus (the texts and the dates are left out).
Request(status) == [status |-> status]

\* create_request with no organization, service type or medium of exchange.
create_request_run(D, L, caller) ==
  LET user_links == get_agent_user(L, caller) IN
  IF user_links = {} THEN Fail(D, L, "UserProfileRequired")
  ELSE IF first(user_links).target[1] # "action"
  THEN Fail(D, L, "ActionHashNotFound")
  ELSE IF ~check_if_entity_is_accepted(L,
             [entity |-> "users",
              entity_original_action_hash |-> first(user_links).target[2]])
  THEN Fail(D, L, "EntityNotAccepted")
  ELSE
    LET D1 == create_entry(D, caller, "Request", Request("Active"))
        request_hash == hash_action(D, "Request")
        L1 == create_link(L, PathBase("requests", "active"),
                          ActionBase(request_hash), "ActiveRequests")
        L2 == create_link(L1, first(user_links).target, ActionBase(request_hash),
                          "UserRequests")
        L3 == create_link(L2, ActionBase(request_hash), first(user_links).target,
                          "RequestCreator")
    IN Done(D1, L3, request_hash)

\* The record at the newest RequestUpdates link of the hash, or at the hash.
get_latest_request_record(D, L, original_action_hash) ==
  LET ls == get_links(L, ActionBase(original_action_hash), "RequestUpdates") IN
  IF ls = {} THEN get(D, original_action_hash)
  ELSE get(D, latest(ls).target[2])

\* update_request's test: the status in the record of original_action_hash.
request_is_archived(D, L, original_action_hash) ==
  get(D, original_action_hash).entry.status = "Archived"

\* update_request with no service type and no medium of exchange.
update_request_run(D, L, caller, input) ==
  LET original_record == get(D, input.original_action_hash) IN
  IF original_record = Missing THEN Fail(D, L, "EntryNotFound")
  ELSE IF /\ original_record.author # caller
          /\ ~check_if_agent_is_administrator(L,
                [entity |-> "network", agent_pubkey |-> caller])
  THEN Fail(D, L, "NotAuthor")
  ELSE IF original_record.action = "Delete" THEN Fail(D, L, "EntryNotFound")
  ELSE IF original_record.entry_type # "Request" THEN Fail(D, L, "Serialize")
  ELSE IF request_is_archived(D, L, input.original_action_hash)
  THEN Fail(D, L, "CannotUpdateArchived")
  ELSE IF ~can_update_entry(D, input.previous_action_hash, "Request")
  THEN Fail(D, L, "HostError")
  ELSE
    LET D1 == update_entry(D, caller, input.previous_action_hash, "Request",
                           input.updated_request)
        updated_request_hash == hash_action(D, "Request")
        found == {l \in get_links(L, PathBase("requests", ""), "AllRequests") :
                    l.target = ActionBase(input.original_action_hash)}
        L1 == IF found = {} THEN L ELSE delete_link(L, create_link_hash(first(found)))
        L2 == create_link(L1, PathBase("requests", ""),
                          ActionBase(updated_request_hash), "AllRequests")
        L3 == create_link(L2, ActionBase(input.original_action_hash),
                          ActionBase(updated_request_hash), "RequestUpdates")
    IN Done(D1, L3, updated_request_hash)

\* archive_request's removal: the first active link whose target is the
\* latest action.
remove_active_request_link(D, L, original_action_hash, latest_action_hash) ==
  LET found == {l \in get_links(L, PathBase("requests", "active"), "ActiveRequests") :
                  l.target = ActionBase(latest_action_hash)}
  IN IF found = {} THEN L ELSE delete_link(L, create_link_hash(first(found)))

archive_request_run(D, L, caller, original_action_hash) ==
  LET ls == get_links(L, ActionBase(original_action_hash), "RequestUpdates")
      latest_action_hash ==
        IF ls = {} THEN original_action_hash ELSE latest(ls).target[2]
      latest_record == get(D, latest_action_hash)
  IN
  IF latest_record = Missing THEN Fail(D, L, "EntryNotFound")
  ELSE IF /\ latest_record.author # caller
          /\ ~check_if_agent_is_administrator(L,
                [entity |-> "network", agent_pubkey |-> caller])
  THEN Fail(D, L, "NotAuthor")
  ELSE IF latest_record.action = "Delete" THEN Fail(D, L, "EntryNotFound")
  ELSE IF latest_record.entry_type # "Request" THEN Fail(D, L, "Serialize")
  ELSE
    LET D1 == update_entry(D, caller, latest_action_hash, "Request",
                           [latest_record.entry EXCEPT !.status = "Archived"])
        updated_request_hash == hash_action(D, "Request")
        L1 == remove_active_request_link(D, L, original_action_hash,
                                         latest_action_hash)
        L2 == create_link(L1, PathBase("requests", "archived"),
                          ActionBase(updated_request_hash), "ArchivedRequests")
        L3 == create_link(L2, ActionBase(original_action_hash),
                          ActionBase(updated_request_hash), "RequestUpdates")
    IN Done(D1, L3, NoHash)

MaxRequests == 1
MaxRequestRevisions == 2

\* The request hashes callers pass: the request actions (original or
\* revision) and one unknown hash.
RequestHashes ==
  {h \in DOMAIN dht : dht[h].entry_type = "Request"} \cup {NoHash}

\* A call of the requests zome.
CommitRequests(op, caller, r) ==
  /\ Cardinality(Entries(r.dht, "Create", "Request")) <= MaxRequests
  /\ Cardinality(Entries(r.dht, "Update", "Request")) <= MaxRequestRevisions
  /\ Commit(op, caller, r.err, r.dht, r.links)

CreateRequest ==
  \E caller \in Agents :
    CommitRequests("create_request", caller, create_request_run(dht, links, caller))
UpdateRequest ==
  \E caller \in Agents, original \in RequestHashes, previous \in RequestHashes :
    CommitRequests("update_request", caller,
      update_request_run(dht, links, caller,
        [original_action_hash |-> original, previous_action_hash |-> previous,
         updated_request |-> Request("Active")]))
ArchiveRequest ==
  \E caller \in Agents, h \in RequestHashes :
    CommitRequests("archive_request", caller,
                   archive_request_run(dht, links, caller, h))

NextRequests ==
  \/ Return
  \/ CreateRequest
  \/ UpdateRequest
  \/ ArchiveRequest

SpecRequests == InitAdministered /\ [][NextRequests]_vars

\* The actions of the update chain that a request action belongs to.
RequestChain(D, h) ==
  {k \in DOMAIN D : /\ D[k].entry_type = "Request"
                    /\ find_original_action_hash(D, k).hash
                         = find_original_action_hash(D, h).hash}

\* C31: once archive_request has written an Archived revision of a request,
\* no update_request writes a revision of that request.
C31_Step ==
  (result = NoResult /\ result'.op = "update_request") =>
    \A h \in DOMAIN dht' \ DOMAIN dht :
      dht'[h].entry_type = "Request" =>
        \A k \in RequestChain(dht', h) \ {h} : dht'[k].entry.status # "Archived"

C31_ArchivedRequestsAreNotUpdated == [][C31_Step]_vars

\* C32: after archive_request has succeeded, no live edge of
\* requests.active targets a revision of the request and a live edge of
\* requests.archived targets one.
C32_Step ==
  (result = NoResult /\ result'.op = "archive_request" /\ result'.outcome = "Ok") =>
    \A h \in DOMAIN dht' \ DOMAIN dht :
      /\ ~\E l \in get_links(links', PathBase("requests", "active"), "ActiveRequests") :
            l.target[2] \in RequestChain(dht', h)
      /\ \E l \in get_links(links', PathBase("requests", "archived"),
                            "ArchivedRequests") :
            l.target[2] \in RequestChain(dht', h)

C32_ArchiveMovesTheRequest == [][C32_Step]_vars

\* ------------------------------------- requests and the accepted bucket
NextRequestGate ==
  \/ Return
  \/ UpdateEntityStatusCore
  \/ CreateAcceptedEntityLink
  \/ CreateRequest

SpecRequestGate == InitAdministered /\ [][NextRequestGate]_vars

\* The user hashes that the caller's MyUser links lead to.
UsersOf(L, caller) == {l.target[2] : l \in get_agent_user(L, caller)}

\* C36: create_request succeeds only for an agent whose user's latest
\* status is accepted; after a rejection it fails until the user is
\* approved again.
C36_Step ==
  (result = NoResult /\ result'.op = "create_request" /\ result'.outcome = "Ok") =>
    \E u \in UsersOf(links, result'.caller) :
      LatestStatusType(dht, links, "users", u) = "accepted"

C36_RequestsNeedAnAcceptedUser == [][C36_Step]_vars

\* ---------------------------------------------------- offers: offer.rs
\* An Offer: its ListingStatus (the texts are left out).
Offer(status) == [status |-> status]

\* create_offer with no organization, service type or medium of exchange.
create_offer_run(D, L, caller) ==
  LET user_links == get_agent_user(L, caller) IN
  IF user_links = {} THEN Fail(D, L, "UserProfileRequired")
  ELSE IF first(user_links).target[1] # "action"
  THEN Fail(D, L, "ActionHashNotFound")
  ELSE IF ~check_if_entity_is_accepted(L,
             [entity |-> "users",
              entity_original_action_hash |-> first(user_links).target[2]])
  THEN Fail(D, L, "EntityNotAccepted")
  ELSE
    LET D1 == create_entry(D, caller, "Offer", Offer("Active"))
        offer_hash == hash_action(D, "Offer")
        L1 == create_link(L, PathBase("offers", ""), ActionBase(offer_hash),
                          "AllOffers")
        L2 == create_link(L1, first(user_links).target, ActionBase(offer_hash),
                          "UserOffers")
        L3 == create_link(L2, ActionBase(offer_hash), first(user_links).target,
                          "OfferCreator")
    IN Done(D1, L3, offer_hash)

\* The record at the newest OfferUpdates link of the hash, or at the hash.
get_latest_offer_record(D, L, original_action_hash) ==
  LET ls == get_links(L, ActionBase(original_action_hash), "OfferUpdates") IN
  IF ls = {} THEN get(D, original_action_hash)
  ELSE get(D, latest(ls).target[2])

\* update_offer with no service type and no medium of exchange.
update_offer_run(D, L, caller, input) ==
  LET original_record == get(D, input.original_action_hash) IN
  IF original_record = Missing THEN Fail(D, L, "EntryNotFound")
  ELSE IF /\ original_record.author # caller
          /\ ~check_if_agent_is_administrator(L,
                [entity |-> "network", agent_pubkey |-> caller])
  THEN Fail(D, L, "NotAuthor")
  ELSE IF ~can_update_entry(D, input.previous_action_hash, "Offer")
  THEN Fail(D, L, "HostError")
  ELSE
    LET D1 == update_entry(D, caller, input.previous_action_hash, "Offer",
                           input.updated_offer)
        updated_offer_hash == hash_action(D, "Offer")
        L1 == create_link(L, ActionBase(input.original_action_hash),
                          ActionBase(updated_offer_hash), "OfferUpdates")
    IN Done(D1, L1, updated_offer_hash)

\* archive_offer: the update is written on the record of the hash passed,
\* and the OfferUpdates link targets previous_action_hash, that same hash.
archive_offer_run(D, L, caller, original_action_hash) ==
  LET original_record == get(D, original_action_hash) IN
  IF original_record = Missing THEN Fail(D, L, "EntryNotFound")
  ELSE IF /\ original_record.author # caller
          /\ ~check_if_agent_is_administrator(L,
                [entity |-> "network", agent_pubkey |-> caller])
  THEN Fail(D, L, "NotAuthor")
  ELSE IF original_record.action = "Delete" THEN Fail(D, L, "EntryNotFound")
  ELSE IF original_record.entry_type # "Offer" THEN Fail(D, L, "Serialize")
  ELSE
    LET previous_action_hash == original_action_hash
        D1 == update_entry(D, caller, previous_action_hash, "Offer",
                           [original_record.entry EXCEPT !.status = "Archived"])
        L1 == create_link(L, ActionBase(original_action_hash),
                          ActionBase(previous_action_hash), "OfferUpdates")
    IN Done(D1, L1, NoHash)

MaxOffers == 1
MaxOfferRevisions == 2

\* The offer hashes callers pass: the offer actions and one unknown hash.
OfferHashes ==
  {h \in DOMAIN dht : dht[h].entry_type = "Offer"} \cup {NoHash}

\* A call of the offers zome.
CommitOffers(op, caller, r) ==
  /\ Cardinality(Entries(r.dht, "Create", "Offer")) <= MaxOffers
  /\ Cardinality(Entries(r.dht, "Update", "Offer")) <= MaxOfferRevisions
  /\ Commit(op, caller, r.err, r.dht, r.links)

CreateOffer ==
  \E caller \in Agents :
    CommitOffers("create_offer", caller, create_offer_run(dht, links, caller))
UpdateOffer ==
  \E caller \in Agents, original \in OfferHashes, previous \in OfferHashes :
    CommitOffers("update_offer", caller,
      update_offer_run(dht, links, caller,
        [original_action_hash |-> original, previous_action_hash |-> previous,
         updated_offer |-> Offer("Active")]))
ArchiveOffer ==
  \E caller \in Agents, h \in OfferHashes :
    CommitOffers("archive_offer", caller, archive_offer_run(dht, links, caller, h))

NextOffers ==
  \/ Return
  \/ CreateOffer
  \/ UpdateOffer
  \/ ArchiveOffer

SpecOffers == InitAdministered /\ [][NextOffers]_vars

\* C33: after archive_offer(O) has succeeded, get_latest_offer_record(O)
\* answers a revision whose status is Archived. O is the action that the new
\* Archived revision was written on.
C33_Step ==
  (result = NoResult /\ result'.op = "archive_offer" /\ result'.outcome = "Ok") =>
    \A h \in DOMAIN dht' \ DOMAIN dht :
      LET record == get_latest_offer_record(dht', links',
                                            dht'[h].original_action_address)
      IN /\ record # Missing
         /\ record.entry.status = "Archived"

C33_LatestOfferIsArchived == [][C33_Step]_vars

\* ------------------------------------- exchanges: exchange_response.rs
ALL_RESPONSES_PATH == PathBase("exchanges", "responses.all")

ExchangeResponseStatuses == {"Pending", "Approved", "Rejected"}

\* ExchangeResponse::new: the status (the texts and the dates are left out).
ExchangeResponse_new == [status |-> "Pending"]

\* ExchangeResponse::update_status
ExchangeResponse_update_status(response, new_status) ==
  [response EXCEPT !.status = new_status]

\* The records of the live RequestToResponse links of the entity.
get_responses_for_entity(D, L, entity_hash) ==
  {l.target[2] : l \in {k \in get_links(L, ActionBase(entity_hash), "RequestToResponse") :
                          k.target[1] = "action" /\ get(D, k.target[2]) # Missing}}

\* create_exchange_response: the test of the caller's earlier responses.
has_pending_response(D, L, agent_pubkey, target_entity_hash) ==
  \E response_hash \in get_responses_for_entity(D, L, target_entity_hash) :
    /\ \E link \in get_links(L, ActionBase(response_hash), "ResponseToResponder") :
         link.target = AgentBase(agent_pubkey)
    /\ get(D, response_hash).entry_type = "ExchangeResponse"
    /\ get(D, response_hash).entry.status = "Pending"

create_response_links(D, L, response_hash, target_entity_hash, agent_pubkey) ==
  LET L1 == create_link(L, ActionBase(target_entity_hash),
                        ActionBase(response_hash), "RequestToResponse")
      L2 == create_link(L1, ActionBase(response_hash), AgentBase(agent_pubkey),
                        "ResponseToResponder")
      original_poster == get_request_or_offer_record(D, target_entity_hash).author
      L3 == create_link(L2, ActionBase(response_hash), AgentBase(original_poster),
                        "ResponseToOriginalPoster")
  IN create_link(L3, ALL_RESPONSES_PATH, ActionBase(response_hash), "AllResponses")

create_exchange_response_run(D, L, caller, input) ==
  LET authorized == check_accepted_user_or_administrator(L, caller) IN
  IF authorized # "Ok" THEN Fail(D, L, authorized)
  ELSE IF get_request_or_offer_record(D, input.target_entity_hash) = Missing
  THEN Fail(D, L, "EntryNotFound")
  ELSE IF has_pending_response(D, L, caller, input.target_entity_hash)
  THEN Fail(D, L, "InvalidData")
  ELSE
    LET D1 == create_entry(D, caller, "ExchangeResponse", ExchangeResponse_new)
        response_hash == hash_action(D, "ExchangeResponse")
    IN Done(D1, create_response_links(D1, L, response_hash,
                                      input.target_entity_hash, caller),
            response_hash)

update_response_status_run(D, L, caller, input) ==
  LET current_record == get(D, input.response_hash)
      response_links ==
        get_links(L, ActionBase(input.response_hash), "ResponseToOriginalPoster")
  IN
  IF current_record = Missing THEN Fail(D, L, "EntryNotFound")
  ELSE IF current_record.entry_type # "ExchangeResponse" THEN Fail(D, L, "Serialize")
  ELSE IF response_links = {} \/ first(response_links).target[1] # "agent"
  THEN Fail(D, L, "InvalidData")
  ELSE IF /\ first(response_links).target # AgentBase(caller)
          /\ ~exchanges_check_if_agent_is_administrator(L, caller)
  THEN Fail(D, L, "Unauthorized")
  ELSE IF ~can_update_entry(D, input.response_hash, "ExchangeResponse")
  THEN Fail(D, L, "HostError")
  ELSE Done(update_entry(D, caller, input.response_hash, "ExchangeResponse",
              ExchangeResponse_update_status(current_record.entry, input.new_status)),
            L, hash_action(D, "ExchangeResponse"))

MaxResponses == 2
MaxResponseRevisions == 2

\* The response hashes callers pass, and one unknown hash.
ResponseHashes ==
  {h \in DOMAIN dht : dht[h].entry_type = "ExchangeResponse"} \cup {NoHash}

\* A call of the response externs of the exchanges zome.
CommitResponses(op, caller, r) ==
  /\ Cardinality(Entries(r.dht, "Create", "ExchangeResponse")) <= MaxResponses
  /\ Cardinality(Entries(r.dht, "Update", "ExchangeResponse")) <= MaxResponseRevisions
  /\ Commit(op, caller, r.err, r.dht, r.links)

CreateExchangeResponse ==
  \E caller \in Agents, target \in RequestHashes :
    CommitResponses("create_exchange_response", caller,
      create_exchange_response_run(dht, links, caller,
                                   [target_entity_hash |-> target]))
UpdateResponseStatus ==
  \E caller \in Agents, h \in ResponseHashes,
     new_status \in ExchangeResponseStatuses \ {"Pending"} :
    CommitResponses("update_response_status", caller,
      update_response_status_run(dht, links, caller,
                                 [response_hash |-> h, new_status |-> new_status]))

NextResponses ==
  \/ Return
  \/ CreateRequest
  \/ CreateExchangeResponse
  \/ UpdateResponseStatus

SpecResponses == InitAdministered /\ [][NextResponses]_vars

\* The status in the newest revision of a response.
ResponseStatus(D, response_hash) ==
  LET chain == {k \in DOMAIN D : /\ D[k].entry_type = "ExchangeResponse"
                                 /\ find_original_action_hash(D, k).hash = response_hash}
  IN D[CHOOSE h \in chain : \A k \in chain : k[2] <= h[2]].entry.status

\* The responses that the agent has created.
ResponsesOf(D, L, agent_pubkey) ==
  {h \in Entries(D, "Create", "ExchangeResponse") :
     \E l \in get_links(L, ActionBase(h), "ResponseToResponder") :
       l.target = AgentBase(agent_pubkey)}

\* C34: create_exchange_response is refused for an earlier response only
\* while a response of the caller is still pending; once every response of
\* the caller has been approved or rejected, the refusal does not happen.
C34_Step ==
  (result = NoResult /\ result'.op = "create_exchange_response"
     /\ result'.outcome = "InvalidData") =>
    \E h \in ResponsesOf(dht, links, result'.caller) :
      ResponseStatus(dht, h) = "Pending"

C34_RefusedOnlyWhilePending == [][C34_Step]_vars

\* ------------------------------- users_organizations: organization.rs
\* An Organization entry (its texts are left out).
Organization == [name |-> "o"]

\* OrganizationUser
OrganizationUser(organization, user) ==
  [organization_original_action_hash |-> organization,
   user_original_action_hash |-> user]

get_organization_members_links(L, organization) ==
  get_links(L, ActionBase(organization), "OrganizationMembers")

get_user_organizations_links(L, user) ==
  get_links(L, ActionBase(user), "UserOrganizations")

get_organization_coordinators_links(L, organization) ==
  get_links(L, ActionBase(organization), "OrganizationCoordinators")

is_organization_member(L, input) ==
  /\ \E link \in get_organization_members_links(L, input.organization_original_action_hash) :
       link.target = ActionBase(input.user_original_action_hash)
  /\ \E link \in get_user_organizations_links(L, input.user_original_action_hash) :
       link.target = ActionBase(input.organization_original_action_hash)

is_organization_coordinator(L, input) ==
  \E link \in get_organization_coordinators_links(L,
                input.organization_original_action_hash) :
    link.target = ActionBase(input.user_original_action_hash)

\* Err(..) or Ok(bool): is the caller's user a coordinator of the organization.
check_if_agent_is_organization_coordinator(L, caller, organization) ==
  LET agent_user_links == get_agent_user(L, caller) IN
  IF agent_user_links = {} THEN [err |-> "UserProfileRequired", is |-> FALSE]
  ELSE IF first(agent_user_links).target[1] # "action"
  THEN [err |-> "ActionHashNotFound", is |-> FALSE]
  ELSE [err |-> "Ok",
        is |-> is_organization_coordinator(L,
                 OrganizationUser(organization, first(agent_user_links).target[2]))]

is_organization_accepted(L, organization) ==
  check_if_entity_is_accepted(L,
    [entity |-> "organizations", entity_original_action_hash |-> organization])

\* The test that keeps the last coordinator: never.
is_last_coordinator_never(coordinator_links) == FALSE

\* coordinator_links.len() <= 1
is_last_coordinator(coordinator_links) == Cardinality(coordinator_links) <= 1

create_organization_run(D, L, caller) ==
  LET user_links == get_agent_user(L, caller) IN
  IF user_links = {} THEN Fail(D, L, "UserProfileRequired")
  ELSE
    LET D1 == create_entry(D, caller, "Organization", Organization)
        organization_hash == hash_action(D, "Organization")
        L1 == create_link(L, PathBase("organizations", ""),
                          ActionBase(organization_hash), "AllOrganizations")
        s == create_status_run(D1, L1, caller,
               [entity |-> "users", entity_original_action_hash |-> organization_hash])
    IN IF s.err # "Ok" THEN Fail(D, L, "External")
       ELSE
         LET L2 == create_link(s.links, ActionBase(organization_hash),
                               ActionBase(s.hash), "OrganizationStatus")
             L3 == create_link(L2, first(user_links).target,
                               ActionBase(organization_hash), "UserOrganizations")
             L4 == create_link(L3, ActionBase(organization_hash),
                               first(user_links).target, "OrganizationMembers")
             L5 == create_link(L4, ActionBase(organization_hash),
                               first(user_links).target, "OrganizationCoordinators")
         IN Done(s.dht, L5, organization_hash)

add_member_to_organization_run(D, L, caller, input) ==
  LET coordinator == check_if_agent_is_organization_coordinator(L, caller,
                       input.organization_original_action_hash) IN
  IF coordinator.err # "Ok" THEN Fail(D, L, coordinator.err)
  ELSE IF ~coordinator.is THEN Fail(D, L, "NotCoordinator")
  ELSE IF ~is_organization_accepted(L, input.organization_original_action_hash)
  THEN Fail(D, L, "EntityNotAccepted")
  ELSE IF is_organization_member(L, input) THEN Fail(D, L, "AlreadyMember")
  ELSE
    LET L1 == create_link(L, ActionBase(input.organization_original_action_hash),
                          ActionBase(input.user_original_action_hash),
                          "OrganizationMembers")
        L2 == create_link(L1, ActionBase(input.user_original_action_hash),
                          ActionBase(input.organization_original_action_hash),
                          "UserOrganizations")
    IN Done(D, L2, NoHash)

add_coordinator_to_organization_run(D, L, caller, input) ==
  LET coordinator == check_if_agent_is_organization_coordinator(L, caller,
                       input.organization_original_action_hash) IN
  IF coordinator.err # "Ok" THEN Fail(D, L, coordinator.err)
  ELSE IF ~coordinator.is THEN Fail(D, L, "NotCoordinator")
  ELSE IF ~is_organization_accepted(L, input.organization_original_action_hash)
  THEN Fail(D, L, "EntityNotAccepted")
  ELSE
    LET member == IF is_organization_member(L, input) THEN Done(D, L, NoHash)
                  ELSE add_member_to_organization_run(D, L, caller, input)
    IN
    IF member.err # "Ok" THEN Fail(D, L, member.err)
    ELSE IF get_links(member.links, ActionBase(input.user_original_action_hash),
                      "UserStatus") = {}
    THEN Fail(D, L, "LinkNotFound")
    ELSE IF ~check_if_entity_is_accepted(member.links,
               [entity |-> "users",
                entity_original_action_hash |-> input.user_original_action_hash])
    THEN Fail(D, L, "EntityNotAccepted")
    ELSE IF is_organization_coordinator(member.links, input)
    THEN Fail(D, L, "AlreadyCoordinator")
    ELSE Done(D, create_link(member.links,
                             ActionBase(input.organization_original_action_hash),
                             ActionBase(input.user_original_action_hash),
                             "OrganizationCoordinators"),
              NoHash)

remove_organization_coordinator_run(D, L, caller, input) ==
  LET coordinator == check_if_agent_is_organization_coordinator(L, caller,
                       input.organization_original_action_hash)
      coordinator_links == get_organization_coordinators_links(L,
                             input.organization_original_action_hash)
      found == {link \in coordinator_links :
                  link.target = ActionBase(input.user_original_action_hash)}
  IN
  IF coordinator.err # "Ok" THEN Fail(D, L, coordinator.err)
  ELSE IF ~coordinator.is THEN Fail(D, L, "NotCoordinator")
  ELSE IF ~is_organization_accepted(L, input.organization_original_action_hash)
  THEN Fail(D, L, "EntityNotAccepted")
  ELSE IF ~is_organization_coordinator(L, input) THEN Fail(D, L, "NotCoordinator")
  ELSE IF is_last_coordinator(coordinator_links) THEN Fail(D, L, "LastCoordinator")
  ELSE IF found = {} THEN Fail(D, L, "LinkNotFound")
  ELSE Done(D, delete_link(L, create_link_hash(first(found))), NoHash)

remove_organization_member_run(D, L, caller, input) ==
  LET coordinator == check_if_agent_is_organization_coordinator(L, caller,
                       input.organization_original_action_hash)
      members_links == get_organization_members_links(L,
                         input.organization_original_action_hash)
      found == {link \in members_links :
                  link.target = ActionBase(input.user_original_action_hash)}
      user_found == {link \in get_user_organizations_links(L,
                                input.user_original_action_hash) :
                       link.target = ActionBase(input.organization_original_action_hash)}
  IN
  IF coordinator.err # "Ok" THEN Fail(D, L, coordinator.err)
  ELSE IF ~coordinator.is THEN Fail(D, L, "NotCoordinator")
  ELSE IF ~is_organization_accepted(L, input.organization_original_action_hash)
  THEN Fail(D, L, "EntityNotAccepted")
  ELSE IF ~is_organization_member(L, input) THEN Fail(D, L, "NotMember")
  ELSE IF is_organization_coordinator(L, input) THEN Fail(D, L, "AlreadyCoordinator")
  ELSE IF Cardinality(members_links) <= 1 THEN Fail(D, L, "LastMember")
  ELSE IF found = {} \/ user_found = {} THEN Fail(D, L, "LinkNotFound")
  ELSE Done(D, delete_link(delete_link(L, create_link_hash(first(found))),
                           create_link_hash(first(user_found))),
            NoHash)

\* delete_organization. Each member's first UserOrganizations link to the
\* organization is deleted with the member link.
delete_organization_run(D, L, caller, organization) ==
  LET coordinator == check_if_agent_is_organization_coordinator(L, caller, organization)
      members_links == get_organization_members_links(L, organization)
      user_links(m) == {link \in get_links(L, m.target, "UserOrganizations") :
                          link.target = ActionBase(organization)}
      all_links == {link \in get_links(L, PathBase("organizations", ""),
                                       "AllOrganizations") :
                      link.target = ActionBase(organization)}
      status_links == get_links(L, ActionBase(organization), "OrganizationStatus")
      accepted == {link \in get_accepted_entities(L, "organizations") :
                     link.target = ActionBase(organization)}
      deleted_links ==
        members_links
          \cup {first(user_links(m)) : m \in {k \in members_links : user_links(k) # {}}}
          \cup get_organization_coordinators_links(L, organization)
          \cup (IF all_links = {} THEN {} ELSE {first(all_links)})
          \cup (IF status_links = {} THEN {} ELSE {first(status_links)})
          \cup (IF accepted = {} THEN {} ELSE {first(accepted)})
      L1 == {IF l \in deleted_links THEN [l EXCEPT !.deleted = TRUE] ELSE l : l \in L}
      s == delete_status_run(D, L1, caller,
             [entity |-> "organizations", entity_original_action_hash |-> organization])
  IN
  IF coordinator.err # "Ok" THEN Fail(D, L, coordinator.err)
  ELSE IF ~coordinator.is THEN Fail(D, L, "NotCoordinator")
  ELSE IF \E m \in members_links : m.target[1] # "action"
  THEN Fail(D, L, "ActionHashNotFound")
  ELSE IF s.err # "Ok" THEN Fail(D, L, "External")
  ELSE IF ~can_delete_entry(s.dht, organization) THEN Fail(D, L, "HostError")
  ELSE Done(delete_entry(s.dht, caller, organization), s.links, NoHash)

leave_organization_run(D, L, caller, original_action_hash) ==
  LET agent_user_links == get_agent_user(L, caller) IN
  IF agent_user_links = {} THEN Fail(D, L, "UserProfileRequired")
  ELSE IF first(agent_user_links).target[1] # "action"
  THEN Fail(D, L, "ActionHashNotFound")
  ELSE
    LET agent_user_action_hash == first(agent_user_links).target[2]
        organization_user == OrganizationUser(original_action_hash,
                                              agent_user_action_hash)
        is_coordinator == is_organization_coordinator(L, organization_user)
        removed == IF is_coordinator
                   THEN remove_organization_coordinator_run(D, L, caller,
                                                            organization_user)
                   ELSE Done(D, L, NoHash)
        user_organizations_links ==
          {link \in get_user_organizations_links(removed.links, agent_user_action_hash) :
             link.target = ActionBase(original_action_hash)}
        organization_members_links ==
          get_organization_members_links(removed.links, original_action_hash)
        members_found == {link \in organization_members_links :
                            link.target = ActionBase(agent_user_action_hash)}
        L1 == IF user_organizations_links = {} THEN removed.links
              ELSE delete_link(removed.links,
                               create_link_hash(first(user_organizations_links)))
        L2 == IF members_found = {} THEN L1
              ELSE delete_link(L1, create_link_hash(first(members_found)))
        deleted == IF Cardinality(organization_members_links) <= 1
                   THEN delete_organization_run(D, L2, caller, original_action_hash)
                   ELSE Done(D, L2, NoHash)
    IN
    IF ~is_organization_member(L, organization_user) THEN Fail(D, L, "NotMember")
    ELSE IF /\ is_coordinator
            /\ is_last_coordinator(
                 get_organization_coordinators_links(L, original_action_hash))
    THEN Fail(D, L, "LastCoordinator")
    ELSE IF removed.err # "Ok" THEN Fail(D, L, removed.err)
    ELSE IF deleted.err # "Ok" THEN Fail(D, L, deleted.err)
    ELSE Done(deleted.dht, deleted.links, NoHash)

\* The store after two agents have created their users, the first user's
\* agent has been registered as administrator and has approved both users.
Organized ==
  LET u1 == create_user_run(EmptyStore, {}, "a1")
      u2 == create_user_run(u1.dht, u1.links, "a2")
      admin == register_administrator_run(u2.links,
                 [entity |-> "users", entity_original_action_hash |-> u1.hash,
                  agent_pubkeys |-> <<"a1">>])
      status(L, h) == first(get_links(L, ActionBase(h), "EntityStatus")).target[2]
      a1 == update_entity_status_run(u2.dht, admin.links, "a1",
              [entity |-> "users", entity_original_action_hash |-> u1.hash,
               status_original_action_hash |-> status(admin.links, u1.hash),
               status_previous_action_hash |-> status(admin.links, u1.hash),
               new_status |-> Status_accept])
  IN update_entity_status_run(a1.dht, a1.links, "a1",
       [entity |-> "users", entity_original_action_hash |-> u2.hash,
        status_original_action_hash |-> status(a1.links, u2.hash),
        status_previous_action_hash |-> status(a1.links, u2.hash),
        new_status |-> Status_accept])

InitOrganized ==
  /\ dht = Organized.dht
  /\ links = Organized.links
  /\ now = 0
  /\ result = NoResult
  /\ calls = [a \in Agents |-> Idle]

MaxOrganizations == 1
MaxOrganizationStatuses == 6
MaxMemberLinks == 3
MaxCoordinatorLinks == 3

\* The organization and user hashes callers pass.
OrganizationUsers ==
  {OrganizationUser(o, u) :
     o \in Entries(dht, "Create", "Organization") \cup {NoHash},
     u \in Entries(dht, "Create", "User") \cup {NoHash}}

\* A call of the organization externs.
CommitOrganizations(op, caller, r) ==
  /\ result = NoResult
  /\ Cardinality(Entries(r.dht, "Create", "Organization")) <= MaxOrganizations
  /\ Cardinality({h \in DOMAIN r.dht : r.dht[h].entry_type = "Status"})
       <= MaxOrganizationStatuses
  /\ Cardinality(LinksOfType(r.links, "OrganizationMembers")) <= MaxMemberLinks
  /\ Cardinality(LinksOfType(r.links, "OrganizationCoordinators")) <= MaxCoordinatorLinks
  /\ dht' = r.dht
  /\ links' = r.links
  /\ result' = [op |-> op, caller |-> caller, outcome |-> r.err]
  /\ UNCHANGED <<now, calls>>

CreateOrganization ==
  \E caller \in Agents :
    CommitOrganizations("create_organization", caller,
                        create_organization_run(dht, links, caller))
\* An administrator's approval of an organization through update_entity_status.
ApproveOrganization ==
  \E caller \in Agents, o \in Entries(dht, "Create", "Organization") :
    \E l \in get_links(links, ActionBase(o), "EntityStatus") :
      CommitOrganizations("update_entity_status", caller,
        update_entity_status_run(dht, links, caller,
          [entity |-> "organizations", entity_original_action_hash |-> o,
           status_original_action_hash |-> l.target[2],
           status_previous_action_hash |-> l.target[2],
           new_status |-> Status_accept]))
AddMemberToOrganization ==
  \E caller \in Agents, input \in OrganizationUsers :
    CommitOrganizations("add_member_to_organization", caller,
                        add_member_to_organization_run(dht, links, caller, input))
AddCoordinatorToOrganization ==
  \E caller \in Agents, input \in OrganizationUsers :
    CommitOrganizations("add_coordinator_to_organization", caller,
                        add_coordinator_to_organization_run(dht, links, caller, input))
RemoveOrganizationMember ==
  \E caller \in Agents, input \in OrganizationUsers :
    CommitOrganizations("remove_organization_member", caller,
                        remove_organization_member_run(dht, links, caller, input))
RemoveOrganizationCoordinator ==
  \E caller \in Agents, input \in OrganizationUsers :
    CommitOrganizations("remove_organization_coordinator", caller,
                        remove_organization_coordinator_run(dht, links, caller, input))
LeaveOrganization ==
  \E caller \in Agents, o \in Entries(dht, "Create", "Organization") \cup {NoHash} :
    CommitOrganizations("leave_organization", caller,
                        leave_organization_run(dht, links, caller, o))
DeleteOrganization ==
  \E caller \in Agents, o \in Entries(dht, "Create", "Organization") \cup {NoHash} :
    CommitOrganizations("delete_organization", caller,
                        delete_organization_run(dht, links, caller, o))

NextOrganizations ==
  \/ Return
  \/ CreateOrganization
  \/ ApproveOrganization
  \/ AddMemberToOrganization
  \/ AddCoordinatorToOrganization
  \/ RemoveOrganizationMember
  \/ RemoveOrganizationCoordinator
  \/ LeaveOrganization
  \/ DeleteOrganization

SpecOrganizations == InitOrganized /\ [][NextOrganizations]_vars

\* The organizations whose entry has not been deleted.
ExistingOrganizations ==
  {o \in Entries(dht, "Create", "Organization") : get(dht, o) # Missing}

\* C35: every existing organization has at least one coordinator;
\* leave_organization and remove_organization_coordinator refuse to remove
\* the only one.
C35_EveryOrganizationHasACoordinator ==
  \A o \in ExistingOrganizations :
    get_organization_coordinators_links(links, o) # {}

\* A coordinator was removed from an organization that had two, and the
\* remaining one is then refused with LastCoordinator.
C35_Witness ==
  /\ result.op \in {"leave_organization", "remove_organization_coordinator"}
  /\ result.outcome = "LastCoordinator"
  /\ \E o \in ExistingOrganizations :
       \E l \in LinksOfType(links, "OrganizationCoordinators") :
         l.base = ActionBase(o) /\ l.deleted

====
